---- MODULE Spec2Model ----
(***************************************************************************)
(* picoshell (src/01/picoshell/picoshell.c): a pipeline orchestrator.      *)
(* The orchestrator and every forked stage are modelled as processes with  *)
(* their own descriptor table; every system call of picoshell is one step. *)
(* Descriptor numbers are allocated lowest-free-first, as the kernel does. *)
(***************************************************************************)
EXTENDS Integers, FiniteSets, Sequences, TLC

\* ---------------------------------------------------------------- bounds
MaxStages == 3          \* pipelines of 0..MaxStages commands
NumFds == 6             \* size of a descriptor table (RLIMIT_NOFILE)
MaxExit == 1            \* exit codes 0..MaxExit
Cap == 1                \* capacity of a pipe, in bytes
DataLen == 2            \* the producer writes 0..DataLen bytes

\* ------------------------------------------------------- program constants
STDIN_FILENO == 0
STDOUT_FILENO == 1
NoFd == -1              \* "int prev_fd = -1"
Uninit == -2            \* "int pipefd[2];" before any pipe() call

Stages == 0 .. (MaxStages - 1)
Fds == 0 .. (NumFds - 1)
Signals == {9, 13}      \* SIGKILL, SIGPIPE

\* --------------------------------------------- open file descriptions
Closed == [kind |-> "closed", ch |-> 0]
Tty(n) == [kind |-> "tty", ch |-> n]
Rd(c) == [kind |-> "r", ch |-> c]
Wr(c) == [kind |-> "w", ch |-> c]

IsChan(d) == d.kind \in {"r", "w"}

\* descriptor table of a process started with the three standard streams
StdTable == [f \in Fds |-> IF f <= 2 THEN Tty(f) ELSE Closed]
NoTable == [f \in Fds |-> Closed]

IsOpen(tbl, fd) == fd \in Fds /\ tbl[fd] # Closed
FreeFds(tbl) == {f \in Fds : tbl[f] = Closed}
LowestFree(tbl) == CHOOSE f \in FreeFds(tbl) : \A g \in FreeFds(tbl) : f <= g

\* close(fd): releases the slot; EBADF on a descriptor that is not open
Close(tbl, fd) == IF IsOpen(tbl, fd) THEN [tbl EXCEPT ![fd] = Closed] ELSE tbl

\* slip: the two arguments of dup2 exchanged
Dup2_Swapped(tbl, old, new) == IF old = new THEN tbl ELSE [tbl EXCEPT ![old] = tbl[new]]

\* dup2(old, new) on success: new refers to old's description
Dup2(tbl, old, new) == IF old = new THEN tbl ELSE [tbl EXCEPT ![new] = tbl[old]]

\* pipe(pipefd): two lowest free descriptors, read end first
PipeFds(tbl) ==
    LET r == LowestFree(tbl)
        w == LowestFree([tbl EXCEPT ![r] = Rd(0)])
    IN <<r, w>>
PipeTable(tbl, c) ==
    LET p == PipeFds(tbl)
    IN [tbl EXCEPT ![p[1]] = Rd(c), ![p[2]] = Wr(c)]

\* ------------------------------------------------- termination statuses
NoStatus == [kind |-> "none", val |-> 0]
Exited(c) == [kind |-> "exit", val |-> c]
Signaled(s) == [kind |-> "sig", val |-> s]
Statuses == {Exited(c) : c \in 0 .. MaxExit} \cup {Signaled(s) : s \in Signals}

WIFEXITED(st) == st.kind = "exit"
WEXITSTATUS(st) == st.val
WIFSIGNALED(st) == st.kind = "sig"

\* slip: any normal exit counts as a failure
Aggregate_AnyExit(ec, st) == IF WIFEXITED(st) THEN 1 ELSE ec

\* slip: the verdict follows the last status collected
Aggregate_LastWins(ec, st) == IF WIFEXITED(st) /\ WEXITSTATUS(st) # 0 THEN 1 ELSE 0

\* slip: every normal exit overwrites the verdict with its own outcome
Aggregate_Overwrite(ec, st) ==
    IF WIFEXITED(st) THEN (IF WEXITSTATUS(st) # 0 THEN 1 ELSE 0) ELSE ec

\* body of the wait loop: "if (WIFEXITED(status) && WEXITSTATUS(status) != 0) exit_code = 1;"
Aggregate(ec, st) == IF WIFEXITED(st) /\ WEXITSTATUS(st) # 0 THEN 1 ELSE ec

VARIABLES
    N,          \* number of commands before the NULL terminator of cmds
    pc,         \* orchestrator's position in picoshell
    i,          \* loop index
    prev_fd,    \* read end of the previous pipe, or -1
    pipefd,     \* <<pipefd[0], pipefd[1]>>
    status,     \* last status stored by wait
    exit_code,
    ret,        \* picoshell's return value once pc = "returned"
    pfd,        \* orchestrator's descriptor table
    nchan,      \* number of pipes created so far
    cpc,        \* per stage: position of the child process
    cst,        \* per stage: termination status of the child
    cfd,        \* per stage: the child's descriptor table
    cprev,      \* per stage: the child's copy of prev_fd
    cpipe,      \* per stage: the child's copy of pipefd
    abort,      \* history: the call that ended construction early, or "none"
    cause,      \* history, per stage: the statement at which the child ended
    closelog,   \* history: the orchestrator's close() calls, in order
    nfork       \* history: number of successful fork() calls

parentVars == <<N, pc, i, prev_fd, pipefd, status, exit_code, ret, pfd, nchan, abort,
                closelog, nfork>>
childVars == <<cpc, cst, cfd, cprev, cpipe, cause>>

\* ft_popen: the caller's process is the one that owns pfd and nchan
VARIABLES
    file,       \* "NULL" or a program name
    argv,       \* "NULL" or an argument vector
    type,       \* 'r', 'w' or anything else
    fds,        \* <<fds[0], fds[1]>>
    ft_pc,      \* caller's position in ft_popen
    ft_ret,     \* ft_popen's return value in the caller
    ft_cpc,     \* position of the child process
    ft_cfd,     \* the child's descriptor table
    ft_cst,     \* the child's termination status
    ft_cret     \* value ft_popen returns in the child, should it return there

popenVars == <<file, argv, type, fds, ft_pc, ft_ret, ft_cpc, ft_cfd, ft_cst, ft_cret>>

\* sandbox
VARIABLES
    verbose,    \* the "verbose" argument
    sb_pc,      \* supervisor's position in sandbox
    sb_ret,     \* sandbox's return value
    sb_status,  \* "int status" as filled by the first waitpid
    sb_out,     \* the diagnostic printed, if any
    sb_child,   \* the child running f: "none", "running", "zombie", "reaped"
    sb_cst,     \* the child's termination status
    sb_timer,   \* the alarm() timer: "off", "armed", "fired"
    sb_handler, \* disposition of SIGALRM in the supervisor
    sb_killed,  \* SIGKILL has been sent to the child
    sb_eintr,   \* history: the first waitpid was interrupted
    sb_late,    \* history: the child ended after the timer had fired
    sigchld     \* disposition of SIGCHLD in the supervisor: "default", "ignore"

sandboxVars == <<verbose, sb_pc, sb_ret, sb_status, sb_out, sb_child, sb_cst,
                 sb_timer, sb_handler, sb_killed, sb_eintr, sb_late, sigchld>>

\* the data carried by picoshell's pipes, and three programs using them
VARIABLES
    buf,        \* per channel: the bytes written and not yet read
    src,        \* the producer's full output
    out_left,   \* what the producer has still to write
    held,       \* the byte the transformer has read and not yet written
    sink,       \* the bytes the consumer has read
    eofseen,    \* the stages whose read returned 0
    term        \* the bytes written to the terminal

dataVars == <<buf, src, out_left, held, sink, eofseen, term>>
extVars == <<popenVars, sandboxVars, dataVars>>
\* picoshell's own locals and history, without the process-wide pfd, nchan
picoLocals == <<N, pc, i, prev_fd, pipefd, status, exit_code, ret, abort, closelog, nfork>>
vars == <<parentVars, childVars, extVars>>

\* one close() call of the orchestrator: the expression that named the
\* descriptor, its number, and the description it referred to at the call
CloseCall(via, fd, tbl) ==
    [via |-> via, fd |-> fd, d |-> IF fd \in Fds THEN tbl[fd] ELSE Closed]

HasNext(k) == k + 1 < N          \* cmds[k + 1] != NULL

\* no data is modelled
DataIdle ==
    /\ buf = [c \in Stages |-> <<>>]
    /\ src = <<>> /\ out_left = <<>> /\ held = <<>> /\ sink = <<>>
    /\ eofseen = {} /\ term = <<>>

\* sandbox is not being called
SandboxIdle ==
    /\ verbose = FALSE
    /\ sb_pc = "idle" /\ sb_ret = -1 /\ sb_status = NoStatus /\ sb_out = "none"
    /\ sb_child = "none" /\ sb_cst = NoStatus
    /\ sb_timer = "off" /\ sb_handler = "default"
    /\ sb_killed = FALSE /\ sb_eintr = FALSE /\ sb_late = FALSE
    /\ sigchld = "default"

\* ft_popen is not being called
PopenIdle ==
    /\ file = "NULL" /\ argv = "NULL" /\ type = "x"
    /\ fds = <<Uninit, Uninit>>
    /\ ft_pc = "idle" /\ ft_ret = -1
    /\ ft_cpc = "none" /\ ft_cfd = NoTable /\ ft_cst = NoStatus /\ ft_cret = -1

Init ==
    /\ N \in 0 .. MaxStages
    /\ pc = "head"
    /\ i = 0
    /\ prev_fd = NoFd
    /\ pipefd = <<Uninit, Uninit>>
    /\ status = NoStatus
    /\ exit_code = 0
    /\ ret = -1
    /\ pfd = StdTable
    /\ nchan = 0
    /\ cpc = [k \in Stages |-> "none"]
    /\ cst = [k \in Stages |-> NoStatus]
    /\ cfd = [k \in Stages |-> NoTable]
    /\ cprev = [k \in Stages |-> NoFd]
    /\ cpipe = [k \in Stages |-> <<Uninit, Uninit>>]
    /\ abort = "none"
    /\ cause = [k \in Stages |-> "none"]
    /\ closelog = <<>>
    /\ nfork = 0
    /\ PopenIdle
    /\ SandboxIdle
    /\ DataIdle

\* ------------------------------------------------------- orchestrator
\* "while (cmds[i])"
LoopHead ==
    /\ pc = "head"
    /\ pc' = IF i < N THEN "pipe" ELSE "wait"
    /\ UNCHANGED <<N, i, prev_fd, pipefd, status, exit_code, ret, pfd, nchan>>
    /\ UNCHANGED childVars
    /\ UNCHANGED abort
    /\ UNCHANGED closelog
    /\ UNCHANGED nfork
    /\ UNCHANGED extVars

\* slip: a pipe is created for the last command too
PipeSkip_Always ==
    /\ pc = "pipe"
    /\ ~HasNext(i)
    /\ Cardinality(FreeFds(pfd)) >= 2
    /\ pipefd' = PipeFds(pfd)
    /\ pfd' = PipeTable(pfd, nchan)
    /\ nchan' = nchan + 1
    /\ pc' = "fork"
    /\ UNCHANGED <<N, i, prev_fd, status, exit_code, ret>>
    /\ UNCHANGED childVars
    /\ UNCHANGED abort
    /\ UNCHANGED closelog
    /\ UNCHANGED nfork
    /\ UNCHANGED extVars

\* "cmds[i + 1] && ..." is false: no pipe for the last command
PipeSkip ==
    /\ pc = "pipe"
    /\ ~HasNext(i)
    /\ pc' = "fork"
    /\ UNCHANGED <<N, i, prev_fd, pipefd, status, exit_code, ret, pfd, nchan>>
    /\ UNCHANGED childVars
    /\ UNCHANGED abort
    /\ UNCHANGED closelog
    /\ UNCHANGED nfork
    /\ UNCHANGED extVars

\* pipe(pipefd) succeeds
PipeOk ==
    /\ pc = "pipe"
    /\ HasNext(i)
    /\ Cardinality(FreeFds(pfd)) >= 2
    /\ pipefd' = PipeFds(pfd)
    /\ pfd' = PipeTable(pfd, nchan)
    /\ nchan' = nchan + 1
    /\ pc' = "fork"
    /\ UNCHANGED <<N, i, prev_fd, status, exit_code, ret>>
    /\ UNCHANGED childVars
    /\ UNCHANGED abort
    /\ UNCHANGED closelog
    /\ UNCHANGED nfork
    /\ UNCHANGED extVars

\* slip: a failed pipe() reported with -1 instead of 1
PipeFail_MinusOne ==
    /\ pc = "pipe"
    /\ HasNext(i)
    /\ pc' = "returned"
    /\ ret' = -1
    /\ UNCHANGED <<N, i, prev_fd, pipefd, status, exit_code, pfd, nchan>>
    /\ UNCHANGED childVars
    /\ abort' = "pipe"
    /\ UNCHANGED closelog
    /\ UNCHANGED nfork
    /\ UNCHANGED extVars

\* pipe(pipefd) == -1: "return 1;"
PipeFail ==
    /\ pc = "pipe"
    /\ HasNext(i)
    /\ pc' = "returned"
    /\ ret' = 1
    /\ UNCHANGED <<N, i, prev_fd, pipefd, status, exit_code, pfd, nchan>>
    /\ UNCHANGED childVars
    /\ abort' = "pipe"
    /\ UNCHANGED closelog
    /\ UNCHANGED nfork
    /\ UNCHANGED extVars

\* fork() succeeds: the child is a copy of the orchestrator
ForkOk ==
    /\ pc = "fork"
    /\ cpc' = [cpc EXCEPT ![i] = "c_in"]
    /\ cfd' = [cfd EXCEPT ![i] = pfd]
    /\ cprev' = [cprev EXCEPT ![i] = prev_fd]
    /\ cpipe' = [cpipe EXCEPT ![i] = pipefd]
    /\ pc' = "p_close_prev"
    /\ UNCHANGED <<N, i, prev_fd, pipefd, status, exit_code, ret, pfd, nchan, cst>>
    /\ UNCHANGED cause
    /\ UNCHANGED abort
    /\ UNCHANGED closelog
    /\ nfork' = nfork + 1
    /\ UNCHANGED extVars

\* slip: a failed fork() skips the stage and the loop goes on
ForkFail_Continue ==
    /\ pc = "fork"
    /\ pc' = "p_close_prev"
    /\ abort' = "fork"
    /\ UNCHANGED <<N, i, prev_fd, pipefd, status, exit_code, ret, pfd, nchan>>
    /\ UNCHANGED childVars
    /\ UNCHANGED closelog
    /\ UNCHANGED nfork
    /\ UNCHANGED extVars

\* fork() == -1
ForkFail ==
    /\ pc = "fork"
    /\ IF HasNext(i)
         THEN pc' = "ff_close_r" /\ ret' = ret
         ELSE pc' = "returned" /\ ret' = 1
    /\ UNCHANGED <<N, i, prev_fd, pipefd, status, exit_code, pfd, nchan>>
    /\ UNCHANGED childVars
    /\ abort' = "fork"
    /\ UNCHANGED closelog
    /\ UNCHANGED nfork
    /\ UNCHANGED extVars

\* fork error path: "close(pipefd[0]);"
ForkFailCloseR ==
    /\ pc = "ff_close_r"
    /\ pfd' = Close(pfd, pipefd[1])
    /\ pc' = "ff_close_w"
    /\ UNCHANGED <<N, i, prev_fd, pipefd, status, exit_code, ret, nchan>>
    /\ UNCHANGED childVars
    /\ UNCHANGED abort
    /\ closelog' = Append(closelog, CloseCall("pipefd0", pipefd[1], pfd))
    /\ UNCHANGED nfork
    /\ UNCHANGED extVars

\* fork error path: "close(pipefd[1]); ... return 1;"
ForkFailCloseW ==
    /\ pc = "ff_close_w"
    /\ pfd' = Close(pfd, pipefd[2])
    /\ pc' = "returned"
    /\ ret' = 1
    /\ UNCHANGED <<N, i, prev_fd, pipefd, status, exit_code, nchan>>
    /\ UNCHANGED childVars
    /\ UNCHANGED abort
    /\ closelog' = Append(closelog, CloseCall("pipefd1", pipefd[2], pfd))
    /\ UNCHANGED nfork
    /\ UNCHANGED extVars

\* slip: the orchestrator keeps the previous read end open
ParentClosePrev_Skip ==
    /\ pc = "p_close_prev"
    /\ pc' = "p_advance"
    /\ UNCHANGED <<N, i, prev_fd, pipefd, status, exit_code, ret, pfd, nchan>>
    /\ UNCHANGED childVars
    /\ UNCHANGED abort
    /\ UNCHANGED closelog
    /\ UNCHANGED nfork
    /\ UNCHANGED extVars

\* slip: the orchestrator waits for the previous stage before going on
ParentClosePrev_WaitPrev ==
    /\ pc = "p_close_prev"
    /\ i > 0 => cpc[i - 1] \in {"zombie", "reaped"}
    /\ pfd' = IF prev_fd # NoFd THEN Close(pfd, prev_fd) ELSE pfd
    /\ pc' = "p_advance"
    /\ UNCHANGED <<N, i, prev_fd, pipefd, status, exit_code, ret, nchan>>
    /\ UNCHANGED childVars
    /\ UNCHANGED abort
    /\ closelog' = IF prev_fd # NoFd
                     THEN Append(closelog, CloseCall("prev_fd", prev_fd, pfd))
                     ELSE closelog
    /\ UNCHANGED nfork
    /\ UNCHANGED extVars

\* slip: the previous read end is closed a second time
ParentClosePrev_Twice ==
    /\ pc = "p_close_prev"
    /\ pfd' = IF prev_fd # NoFd THEN Close(pfd, prev_fd) ELSE pfd
    /\ pc' = "p_advance"
    /\ UNCHANGED <<N, i, prev_fd, pipefd, status, exit_code, ret, nchan>>
    /\ UNCHANGED childVars
    /\ UNCHANGED abort
    /\ closelog' = IF prev_fd # NoFd
                     THEN closelog \o <<CloseCall("prev_fd", prev_fd, pfd),
                                        CloseCall("prev_fd", prev_fd, pfd')>>
                     ELSE closelog
    /\ UNCHANGED nfork
    /\ UNCHANGED extVars

\* parent: "if (prev_fd != -1) close(prev_fd);"
ParentClosePrev ==
    /\ pc = "p_close_prev"
    /\ pfd' = IF prev_fd # NoFd THEN Close(pfd, prev_fd) ELSE pfd
    /\ pc' = "p_advance"
    /\ UNCHANGED <<N, i, prev_fd, pipefd, status, exit_code, ret, nchan>>
    /\ UNCHANGED childVars
    /\ UNCHANGED abort
    /\ closelog' = IF prev_fd # NoFd
                     THEN Append(closelog, CloseCall("prev_fd", prev_fd, pfd))
                     ELSE closelog
    /\ UNCHANGED nfork
    /\ UNCHANGED extVars

\* slip: the orchestrator keeps the write end of the new pipe open
ParentAdvance_KeepW ==
    /\ pc = "p_advance"
    /\ prev_fd' = IF HasNext(i) THEN pipefd[1] ELSE prev_fd
    /\ i' = i + 1
    /\ pc' = "head"
    /\ UNCHANGED <<N, pipefd, status, exit_code, ret, pfd, nchan>>
    /\ UNCHANGED childVars
    /\ UNCHANGED abort
    /\ UNCHANGED closelog
    /\ UNCHANGED nfork
    /\ UNCHANGED extVars

\* slip: the loop index is not advanced
ParentAdvance_NoIncrement ==
    /\ pc = "p_advance"
    /\ pfd' = IF HasNext(i) THEN Close(pfd, pipefd[2]) ELSE pfd
    /\ prev_fd' = IF HasNext(i) THEN pipefd[1] ELSE prev_fd
    /\ i' = i
    /\ pc' = "head"
    /\ UNCHANGED <<N, pipefd, status, exit_code, ret, nchan>>
    /\ UNCHANGED childVars
    /\ UNCHANGED abort
    /\ closelog' = IF HasNext(i)
                     THEN Append(closelog, CloseCall("pipefd1", pipefd[2], pfd))
                     ELSE closelog
    /\ UNCHANGED nfork
    /\ UNCHANGED extVars

\* slip: close(pipefd[1]) is not guarded by cmds[i + 1]
ParentAdvance_CloseAlways ==
    /\ pc = "p_advance"
    /\ pfd' = Close(pfd, pipefd[2])
    /\ prev_fd' = IF HasNext(i) THEN pipefd[1] ELSE prev_fd
    /\ i' = i + 1
    /\ pc' = "head"
    /\ UNCHANGED <<N, pipefd, status, exit_code, ret, nchan>>
    /\ UNCHANGED childVars
    /\ UNCHANGED abort
    /\ closelog' = Append(closelog, CloseCall("pipefd1", pipefd[2], pfd))
    /\ UNCHANGED nfork
    /\ UNCHANGED extVars

\* parent: "if (cmds[i + 1]) { close(pipefd[1]); prev_fd = pipefd[0]; } i++;"
ParentAdvance ==
    /\ pc = "p_advance"
    /\ pfd' = IF HasNext(i) THEN Close(pfd, pipefd[2]) ELSE pfd
    /\ prev_fd' = IF HasNext(i) THEN pipefd[1] ELSE prev_fd
    /\ i' = i + 1
    /\ pc' = "head"
    /\ UNCHANGED <<N, pipefd, status, exit_code, ret, nchan>>
    /\ UNCHANGED childVars
    /\ UNCHANGED abort
    /\ closelog' = IF HasNext(i)
                     THEN Append(closelog, CloseCall("pipefd1", pipefd[2], pfd))
                     ELSE closelog
    /\ UNCHANGED nfork
    /\ UNCHANGED extVars

\* wait() waits for any child of the calling process: no child started by
\* ft_popen or sandbox in the same process is left to wait for
NoOtherChild ==
    /\ ft_cpc \in {"none", "reaped"}
    /\ sb_child \notin {"running", "zombie"}

\* slip: once a failure is recorded the remaining stages are killed
WaitReap_KillSiblings(k) ==
    /\ pc = "wait"
    /\ cpc[k] = "zombie"
    /\ status' = cst[k]
    /\ exit_code' = Aggregate(exit_code, cst[k])
    /\ LET hit == {j \in Stages : /\ j # k
                                  /\ exit_code' = 1
                                  /\ cpc[j] \notin {"none", "zombie", "reaped"}}
       IN /\ cpc' = [j \in Stages |-> IF j = k THEN "reaped"
                                      ELSE IF j \in hit THEN "zombie" ELSE cpc[j]]
          /\ cst' = [j \in Stages |-> IF j \in hit THEN Signaled(9) ELSE cst[j]]
          /\ cfd' = [j \in Stages |-> IF j \in hit THEN NoTable ELSE cfd[j]]
          /\ cause' = [j \in Stages |-> IF j \in hit THEN "killed" ELSE cause[j]]
    /\ UNCHANGED <<N, pc, i, prev_fd, pipefd, ret, pfd, nchan>>
    /\ UNCHANGED <<cprev, cpipe>>
    /\ UNCHANGED abort
    /\ UNCHANGED closelog
    /\ UNCHANGED nfork
    /\ UNCHANGED extVars

\* wait(&status) returns a terminated child, in any order, and the loop body
WaitReap(k) ==
    /\ pc = "wait"
    /\ cpc[k] = "zombie"
    /\ cpc' = [cpc EXCEPT ![k] = "reaped"]
    /\ status' = cst[k]
    /\ exit_code' = Aggregate(exit_code, cst[k])
    /\ UNCHANGED <<N, pc, i, prev_fd, pipefd, ret, pfd, nchan>>
    /\ UNCHANGED <<cst, cfd, cprev, cpipe>>
    /\ UNCHANGED cause
    /\ UNCHANGED abort
    /\ UNCHANGED closelog
    /\ UNCHANGED nfork
    /\ UNCHANGED extVars

\* slip: the collection loop ends as soon as a failure is recorded
WaitDone_ShortCircuit ==
    /\ pc = "wait"
    /\ \/ \A k \in Stages : cpc[k] \in {"none", "reaped"}
       \/ exit_code = 1
    /\ pc' = "returned"
    /\ ret' = exit_code
    /\ UNCHANGED <<N, i, prev_fd, pipefd, status, exit_code, pfd, nchan>>
    /\ UNCHANGED childVars
    /\ UNCHANGED abort
    /\ UNCHANGED closelog
    /\ UNCHANGED nfork
    /\ UNCHANGED extVars

\* wait(&status) == -1 (ECHILD): "return exit_code;"
WaitDone ==
    /\ pc = "wait"
    /\ \A k \in Stages : cpc[k] \in {"none", "reaped"}
    /\ NoOtherChild
    /\ pc' = "returned"
    /\ ret' = exit_code
    /\ UNCHANGED <<N, i, prev_fd, pipefd, status, exit_code, pfd, nchan>>
    /\ UNCHANGED childVars
    /\ UNCHANGED abort
    /\ UNCHANGED closelog
    /\ UNCHANGED nfork
    /\ UNCHANGED extVars

\* ------------------------------------------------------------ children
\* the child process ends: every descriptor it holds is released
Die(k, st, why) ==
    /\ cause' = [cause EXCEPT ![k] = why]
    /\ cpc' = [cpc EXCEPT ![k] = "zombie"]
    /\ cst' = [cst EXCEPT ![k] = st]
    /\ cfd' = [cfd EXCEPT ![k] = NoTable]

\* position after the stdin block
AfterIn(k) == IF HasNext(k) THEN "c_close_r" ELSE "c_exec"

\* "if (prev_fd != -1) { if (dup2(prev_fd, STDIN_FILENO) == -1) exit(1);"
ChildDupIn(k) ==
    /\ cpc[k] = "c_in"
    /\ \/ /\ cprev[k] = NoFd
          /\ cpc' = [cpc EXCEPT ![k] = AfterIn(k)]
          /\ UNCHANGED <<cst, cfd>>
       \/ /\ cprev[k] # NoFd
          /\ IsOpen(cfd[k], cprev[k])
          /\ cfd' = [cfd EXCEPT ![k] = Dup2(cfd[k], cprev[k], STDIN_FILENO)]
          /\ cpc' = [cpc EXCEPT ![k] = "c_close_prev"]
          /\ UNCHANGED cst
    /\ UNCHANGED <<cprev, cpipe>>
    /\ UNCHANGED parentVars
    /\ UNCHANGED cause
    /\ UNCHANGED extVars

\* dup2(prev_fd, STDIN_FILENO) == -1: "exit(1);"
ChildDupInFail(k) ==
    /\ cpc[k] = "c_in"
    /\ cprev[k] # NoFd
    /\ Die(k, Exited(1), "dup_in")
    /\ UNCHANGED <<cprev, cpipe>>
    /\ UNCHANGED parentVars
    /\ UNCHANGED extVars

\* "close(prev_fd); }"
ChildClosePrev(k) ==
    /\ cpc[k] = "c_close_prev"
    /\ cfd' = [cfd EXCEPT ![k] = Close(cfd[k], cprev[k])]
    /\ cpc' = [cpc EXCEPT ![k] = AfterIn(k)]
    /\ UNCHANGED <<cst, cprev, cpipe>>
    /\ UNCHANGED parentVars
    /\ UNCHANGED cause
    /\ UNCHANGED extVars

\* slip: the child keeps the read end of its own output pipe
ChildCloseR_Skip(k) ==
    /\ cpc[k] = "c_close_r"
    /\ cpc' = [cpc EXCEPT ![k] = "c_dup_out"]
    /\ UNCHANGED <<cst, cfd, cprev, cpipe>>
    /\ UNCHANGED parentVars
    /\ UNCHANGED cause
    /\ UNCHANGED extVars

\* "if (cmds[i + 1]) { close(pipefd[0]);"
ChildCloseR(k) ==
    /\ cpc[k] = "c_close_r"
    /\ cfd' = [cfd EXCEPT ![k] = Close(cfd[k], cpipe[k][1])]
    /\ cpc' = [cpc EXCEPT ![k] = "c_dup_out"]
    /\ UNCHANGED <<cst, cprev, cpipe>>
    /\ UNCHANGED parentVars
    /\ UNCHANGED cause
    /\ UNCHANGED extVars

\* slip: the stage's stdout is left where it was
ChildDupOut_Skip(k) ==
    /\ cpc[k] = "c_dup_out"
    /\ cpc' = [cpc EXCEPT ![k] = "c_close_w"]
    /\ UNCHANGED <<cst, cfd, cprev, cpipe>>
    /\ UNCHANGED parentVars
    /\ UNCHANGED cause
    /\ UNCHANGED extVars

\* "if (dup2(pipefd[1], STDOUT_FILENO) == -1) exit(1);" succeeds
ChildDupOut(k) ==
    /\ cpc[k] = "c_dup_out"
    /\ IsOpen(cfd[k], cpipe[k][2])
    /\ cfd' = [cfd EXCEPT ![k] = Dup2(cfd[k], cpipe[k][2], STDOUT_FILENO)]
    /\ cpc' = [cpc EXCEPT ![k] = "c_close_w"]
    /\ UNCHANGED <<cst, cprev, cpipe>>
    /\ UNCHANGED parentVars
    /\ UNCHANGED cause
    /\ UNCHANGED extVars

\* slip: the child leaves with status 0 when dup2 fails
ChildDupOutFail_ExitZero(k) ==
    /\ cpc[k] = "c_dup_out"
    /\ Die(k, Exited(0), "dup_out")
    /\ UNCHANGED <<cprev, cpipe>>
    /\ UNCHANGED parentVars
    /\ UNCHANGED extVars

\* dup2(pipefd[1], STDOUT_FILENO) == -1: "exit(1);"
ChildDupOutFail(k) ==
    /\ cpc[k] = "c_dup_out"
    /\ Die(k, Exited(1), "dup_out")
    /\ UNCHANGED <<cprev, cpipe>>
    /\ UNCHANGED parentVars
    /\ UNCHANGED extVars

\* slip: the child keeps the original handle to the write end
ChildCloseW_Skip(k) ==
    /\ cpc[k] = "c_close_w"
    /\ cpc' = [cpc EXCEPT ![k] = "c_exec"]
    /\ UNCHANGED <<cst, cfd, cprev, cpipe>>
    /\ UNCHANGED parentVars
    /\ UNCHANGED cause
    /\ UNCHANGED extVars

\* "close(pipefd[1]); }"
ChildCloseW(k) ==
    /\ cpc[k] = "c_close_w"
    /\ cfd' = [cfd EXCEPT ![k] = Close(cfd[k], cpipe[k][2])]
    /\ cpc' = [cpc EXCEPT ![k] = "c_exec"]
    /\ UNCHANGED <<cst, cprev, cpipe>>
    /\ UNCHANGED parentVars
    /\ UNCHANGED cause
    /\ UNCHANGED extVars

\* "execvp(cmds[i][0], cmds[i]);" succeeds: descriptors survive the new image
ChildExec(k) ==
    /\ cpc[k] = "c_exec"
    /\ cpc' = [cpc EXCEPT ![k] = "running"]
    /\ UNCHANGED <<cst, cfd, cprev, cpipe>>
    /\ UNCHANGED parentVars
    /\ UNCHANGED cause
    /\ UNCHANGED extVars

\* slip: the child leaves with status 0 when execvp fails
ChildExecFail_ExitZero(k) ==
    /\ cpc[k] = "c_exec"
    /\ Die(k, Exited(0), "exec")
    /\ UNCHANGED <<cprev, cpipe>>
    /\ UNCHANGED parentVars
    /\ UNCHANGED extVars

\* execvp returned: "exit(1);  // Only executes if execvp fails"
ChildExecFail(k) ==
    /\ cpc[k] = "c_exec"
    /\ Die(k, Exited(1), "exec")
    /\ UNCHANGED <<cprev, cpipe>>
    /\ UNCHANGED parentVars
    /\ UNCHANGED extVars

\* the command ends, with an exit code or killed by a signal
ChildTerminate(k) ==
    /\ cpc[k] = "running"
    /\ \E st \in Statuses : Die(k, st, "prog")
    /\ UNCHANGED <<cprev, cpipe>>
    /\ UNCHANGED parentVars
    /\ UNCHANGED extVars

Next ==
    \/ LoopHead
    \/ PipeSkip
    \/ PipeOk
    \/ PipeFail
    \/ ForkOk
    \/ ForkFail
    \/ ForkFailCloseR
    \/ ForkFailCloseW
    \/ ParentClosePrev
    \/ ParentAdvance
    \/ \E k \in Stages : WaitReap(k)
    \/ WaitDone
    \/ \E k \in Stages : ChildDupIn(k)
    \/ \E k \in Stages : ChildDupInFail(k)
    \/ \E k \in Stages : ChildClosePrev(k)
    \/ \E k \in Stages : ChildCloseR(k)
    \/ \E k \in Stages : ChildDupOut(k)
    \/ \E k \in Stages : ChildDupOutFail(k)
    \/ \E k \in Stages : ChildCloseW(k)
    \/ \E k \in Stages : ChildExec(k)
    \/ \E k \in Stages : ChildExecFail(k)
    \/ \E k \in Stages : ChildTerminate(k)

Spec == Init /\ [][Next]_vars

\* the orchestrator is a running process: its next statement is eventually
\* executed; nothing is assumed about the stages
OrchestratorStep ==
    \/ LoopHead \/ PipeSkip \/ PipeOk \/ PipeFail \/ ForkOk \/ ForkFail
    \/ ForkFailCloseR \/ ForkFailCloseW \/ ParentClosePrev \/ ParentAdvance
    \/ WaitDone \/ \E k \in Stages : WaitReap(k)
SpecLaunch == Init /\ [][Next]_vars /\ WF_vars(OrchestratorStep)

\* every stage is scheduled too, and every command ends
StageStep(k) ==
    \/ ChildDupIn(k) \/ ChildDupInFail(k) \/ ChildClosePrev(k) \/ ChildCloseR(k)
    \/ ChildDupOut(k) \/ ChildDupOutFail(k) \/ ChildCloseW(k)
    \/ ChildExec(k) \/ ChildExecFail(k) \/ ChildTerminate(k)
SpecStagesEnd ==
    Init /\ [][Next]_vars /\ WF_vars(OrchestratorStep)
         /\ \A k \in Stages : WF_vars(StageStep(k))

\* ============================================================ ft_popen
\* picoshell is not being called
PicoIdle ==
    /\ N = 0 /\ pc = "idle" /\ i = 0 /\ prev_fd = NoFd
    /\ pipefd = <<Uninit, Uninit>>
    /\ status = NoStatus /\ exit_code = 0 /\ ret = -1
    /\ cpc = [k \in Stages |-> "none"]
    /\ cst = [k \in Stages |-> NoStatus]
    /\ cfd = [k \in Stages |-> NoTable]
    /\ cprev = [k \in Stages |-> NoFd]
    /\ cpipe = [k \in Stages |-> <<Uninit, Uninit>>]
    /\ abort = "none"
    /\ cause = [k \in Stages |-> "none"]
    /\ closelog = <<>>
    /\ nfork = 0

\* a call of ft_popen(file, argv, type) with any arguments
InitPopen ==
    /\ file \in {"NULL", "prog"}
    /\ argv \in {"NULL", "args"}
    /\ type \in {"r", "w", "x"}
    /\ fds = <<Uninit, Uninit>>
    /\ ft_pc = "check" /\ ft_ret = -1
    /\ ft_cpc = "none" /\ ft_cfd = NoTable /\ ft_cst = NoStatus /\ ft_cret = -1
    /\ pfd \in {StdTable, [StdTable EXCEPT ![3] = Tty(3)]}
    /\ nchan = 0
    /\ PicoIdle
    /\ SandboxIdle
    /\ DataIdle

\* what every ft_popen step of the caller leaves alone
PopenCallerFrame ==
    /\ UNCHANGED <<file, argv, type>>
    /\ UNCHANGED <<picoLocals, childVars, sandboxVars, dataVars>>

\* what every step of ft_popen's child leaves alone
PopenChildFrame ==
    /\ UNCHANGED <<file, argv, type, fds, ft_pc, ft_ret>>
    /\ UNCHANGED <<parentVars, childVars, sandboxVars, dataVars>>

\* "if (!file || !argv || (type != 'r' && type != 'w')) return -1;"
PopenBadArgs ==
    /\ ft_pc = "check"
    /\ file = "NULL" \/ argv = "NULL" \/ type \notin {"r", "w"}
    /\ ft_pc' = "returned"
    /\ ft_ret' = -1
    /\ UNCHANGED <<fds, pfd, nchan, ft_cpc, ft_cfd, ft_cst, ft_cret>>
    /\ PopenCallerFrame

\* the arguments pass the check
PopenArgsOk ==
    /\ ft_pc = "check"
    /\ ~(file = "NULL" \/ argv = "NULL" \/ type \notin {"r", "w"})
    /\ ft_pc' = "pipe"
    /\ UNCHANGED <<fds, ft_ret, pfd, nchan, ft_cpc, ft_cfd, ft_cst, ft_cret>>
    /\ PopenCallerFrame

\* "if (pipe(fds) == -1) return -1;"
PopenPipeFail ==
    /\ ft_pc = "pipe"
    /\ ft_pc' = "returned"
    /\ ft_ret' = -1
    /\ UNCHANGED <<fds, pfd, nchan, ft_cpc, ft_cfd, ft_cst, ft_cret>>
    /\ PopenCallerFrame

\* pipe(fds) succeeds
PopenPipeOk ==
    /\ ft_pc = "pipe"
    /\ Cardinality(FreeFds(pfd)) >= 2
    /\ fds' = PipeFds(pfd)
    /\ pfd' = PipeTable(pfd, nchan)
    /\ nchan' = nchan + 1
    /\ ft_pc' = "fork"
    /\ UNCHANGED <<ft_ret, ft_cpc, ft_cfd, ft_cst, ft_cret>>
    /\ PopenCallerFrame

\* "pid_t pid = fork();" fails
PopenForkFail ==
    /\ ft_pc = "fork"
    /\ ft_pc' = "ff_close0"
    /\ UNCHANGED <<fds, ft_ret, pfd, nchan, ft_cpc, ft_cfd, ft_cst, ft_cret>>
    /\ PopenCallerFrame

\* fork error path: "close(fds[0]);"
PopenForkFailClose0 ==
    /\ ft_pc = "ff_close0"
    /\ pfd' = Close(pfd, fds[1])
    /\ ft_pc' = "ff_close1"
    /\ UNCHANGED <<fds, ft_ret, nchan, ft_cpc, ft_cfd, ft_cst, ft_cret>>
    /\ PopenCallerFrame

\* slip: the fork error path leaves the write end open
PopenForkFailClose1_Skip ==
    /\ ft_pc = "ff_close1"
    /\ ft_pc' = "returned"
    /\ ft_ret' = -1
    /\ UNCHANGED <<fds, pfd, nchan, ft_cpc, ft_cfd, ft_cst, ft_cret>>
    /\ PopenCallerFrame

\* fork error path: "close(fds[1]); return -1;"
PopenForkFailClose1 ==
    /\ ft_pc = "ff_close1"
    /\ pfd' = Close(pfd, fds[2])
    /\ ft_pc' = "returned"
    /\ ft_ret' = -1
    /\ UNCHANGED <<fds, nchan, ft_cpc, ft_cfd, ft_cst, ft_cret>>
    /\ PopenCallerFrame

\* fork() succeeds: the child is a copy of the caller
PopenForkOk ==
    /\ ft_pc = "fork"
    /\ ft_pc' = "p_close"
    /\ ft_cpc' = "c_dup"
    /\ ft_cfd' = pfd
    /\ UNCHANGED <<fds, ft_ret, pfd, nchan, ft_cst, ft_cret>>
    /\ PopenCallerFrame

\* the end the parent gives up, and the end it returns
GivenUp(t) == IF t = "r" THEN fds[2] ELSE fds[1]
Kept(t) == IF t = "r" THEN fds[1] ELSE fds[2]

\* slip: the parent returns its end without closing the other one
PopenParentReturn_KeepBoth ==
    /\ ft_pc = "p_close"
    /\ ft_ret' = Kept(type)
    /\ ft_pc' = "returned"
    /\ UNCHANGED <<fds, pfd, nchan, ft_cpc, ft_cfd, ft_cst, ft_cret>>
    /\ PopenCallerFrame

\* parent: 'r': "close(fds[1]); return fds[0];"  'w': "close(fds[0]); return fds[1];"
PopenParentReturn ==
    /\ ft_pc = "p_close"
    /\ pfd' = Close(pfd, GivenUp(type))
    /\ ft_ret' = Kept(type)
    /\ ft_pc' = "returned"
    /\ UNCHANGED <<fds, nchan, ft_cpc, ft_cfd, ft_cst, ft_cret>>
    /\ PopenCallerFrame

\* after the call: the caller is done with the stream and closes it
PopenCallerClose ==
    /\ ft_pc = "returned"
    /\ ft_ret # -1
    /\ pfd' = Close(pfd, ft_ret)
    /\ ft_pc' = "closed"
    /\ UNCHANGED <<fds, ft_ret, nchan, ft_cpc, ft_cfd, ft_cst, ft_cret>>
    /\ PopenCallerFrame

\* the child process ends: every descriptor it holds is released
PopenDie(st) ==
    /\ ft_cpc' = "zombie"
    /\ ft_cst' = st
    /\ ft_cfd' = NoTable

\* the end the child rebinds, and the standard stream it becomes
ChildEnd(t) == IF t = "r" THEN fds[2] ELSE fds[1]
ChildStream(t) == IF t = "r" THEN STDOUT_FILENO ELSE STDIN_FILENO

\* child: 'r': "dup2(fds[1], STDOUT_FILENO)"  'w': "dup2(fds[0], STDIN_FILENO)"
PopenChildDup ==
    /\ ft_cpc = "c_dup"
    /\ IsOpen(ft_cfd, ChildEnd(type))
    /\ ft_cfd' = Dup2(ft_cfd, ChildEnd(type), ChildStream(type))
    /\ ft_cpc' = "c_close0"
    /\ UNCHANGED <<ft_cst, ft_cret>>
    /\ PopenChildFrame

\* dup2(...) == -1: "exit(1);"
PopenChildDupFail ==
    /\ ft_cpc = "c_dup"
    /\ PopenDie(Exited(1))
    /\ UNCHANGED ft_cret
    /\ PopenChildFrame

\* child: "close(fds[0]);"
PopenChildClose0 ==
    /\ ft_cpc = "c_close0"
    /\ ft_cfd' = Close(ft_cfd, fds[1])
    /\ ft_cpc' = "c_close1"
    /\ UNCHANGED <<ft_cst, ft_cret>>
    /\ PopenChildFrame

\* slip: the child keeps its original handle to the write end
PopenChildClose1_Skip ==
    /\ ft_cpc = "c_close1"
    /\ ft_cpc' = "c_exec"
    /\ UNCHANGED <<ft_cfd, ft_cst, ft_cret>>
    /\ PopenChildFrame

\* child: "close(fds[1]);"
PopenChildClose1 ==
    /\ ft_cpc = "c_close1"
    /\ ft_cfd' = Close(ft_cfd, fds[2])
    /\ ft_cpc' = "c_exec"
    /\ UNCHANGED <<ft_cst, ft_cret>>
    /\ PopenChildFrame

\* "execvp(file, argv);" succeeds: descriptors survive the new image
PopenChildExec ==
    /\ ft_cpc = "c_exec"
    /\ ft_cpc' = "running"
    /\ UNCHANGED <<ft_cfd, ft_cst, ft_cret>>
    /\ PopenChildFrame

\* execvp returns -1: no statement follows it inside "if (pid == 0) { ... }",
\* so the child goes on into the code after the block
PopenChildExecFail ==
    /\ ft_cpc = "c_exec"
    /\ ft_cpc' = "c_p_close"
    /\ UNCHANGED <<ft_cfd, ft_cst, ft_cret>>
    /\ PopenChildFrame

\* the child runs the parent's block: 'r': "close(fds[1]); return fds[0];"
PopenChildReturn ==
    /\ ft_cpc = "c_p_close"
    /\ ft_cfd' = Close(ft_cfd, GivenUp(type))
    /\ ft_cret' = Kept(type)
    /\ ft_cpc' = "c_returned"
    /\ UNCHANGED ft_cst
    /\ PopenChildFrame

\* the program, or the copy of the caller that the child has become, ends
PopenChildTerminate ==
    /\ ft_cpc \in {"running", "c_returned"}
    /\ \E st \in Statuses : PopenDie(st)
    /\ UNCHANGED ft_cret
    /\ PopenChildFrame

NextPopen ==
    \/ PopenBadArgs
    \/ PopenArgsOk
    \/ PopenPipeFail
    \/ PopenPipeOk
    \/ PopenForkFail
    \/ PopenForkFailClose0
    \/ PopenForkFailClose1
    \/ PopenForkOk
    \/ PopenParentReturn
    \/ PopenCallerClose
    \/ PopenChildDup
    \/ PopenChildDupFail
    \/ PopenChildClose0
    \/ PopenChildClose1
    \/ PopenChildExec
    \/ PopenChildExecFail
    \/ PopenChildReturn
    \/ PopenChildTerminate

SpecPopen == InitPopen /\ [][NextPopen]_vars

\* ============================================================= sandbox
\* a call of sandbox(f, timeout, verbose) with timeout >= 1
InitSandbox ==
    /\ verbose \in BOOLEAN
    /\ sb_pc = "sigaction" /\ sb_ret = -1 /\ sb_status = NoStatus /\ sb_out = "none"
    /\ sb_child = "none" /\ sb_cst = NoStatus
    /\ sb_timer = "off" /\ sb_handler = "default"
    /\ sb_killed = FALSE /\ sb_eintr = FALSE /\ sb_late = FALSE
    /\ sigchld = "default"
    /\ pfd = StdTable
    /\ nchan = 0
    /\ PicoIdle
    /\ PopenIdle
    /\ DataIdle

\* what every step of sandbox and of its child leaves alone
SandboxFrame ==
    /\ UNCHANGED <<verbose, sigchld>>
    /\ UNCHANGED <<parentVars, childVars, popenVars, dataVars>>

\* "sa.sa_handler = alarm_handler; sa.sa_flags = 0; ... sigaction(SIGALRM, &sa, NULL);"
SbSigaction ==
    /\ sb_pc = "sigaction"
    /\ sb_handler' = "alarm_handler"
    /\ sb_pc' = "fork"
    /\ UNCHANGED <<sb_ret, sb_status, sb_out, sb_child, sb_cst, sb_timer,
                   sb_killed, sb_eintr, sb_late>>
    /\ SandboxFrame

\* "pid = fork(); if (pid == -1) return -1;"
SbForkFail ==
    /\ sb_pc = "fork"
    /\ sb_pc' = "returned"
    /\ sb_ret' = -1
    /\ UNCHANGED <<sb_status, sb_out, sb_child, sb_cst, sb_timer, sb_handler,
                   sb_killed, sb_eintr, sb_late>>
    /\ SandboxFrame

\* fork() succeeds: the child runs f; parent: "child_pid = pid;"
SbForkOk ==
    /\ sb_pc = "fork"
    /\ sb_child' = "running"
    /\ sb_pc' = "alarm"
    /\ UNCHANGED <<sb_ret, sb_status, sb_out, sb_cst, sb_timer, sb_handler,
                   sb_killed, sb_eintr, sb_late>>
    /\ SandboxFrame

\* "alarm(timeout);"
SbAlarm ==
    /\ sb_pc = "alarm"
    /\ sb_timer' = "armed"
    /\ sb_pc' = "waitpid"
    /\ UNCHANGED <<sb_ret, sb_status, sb_out, sb_child, sb_cst, sb_handler,
                   sb_killed, sb_eintr, sb_late>>
    /\ SandboxFrame

\* "waitpid(pid, &status, 0)" is entered while the child runs: the supervisor sleeps
SbWaitBlock ==
    /\ sb_pc = "waitpid"
    /\ sb_child = "running"
    /\ sb_pc' = "blocked"
    /\ UNCHANGED <<sb_ret, sb_status, sb_out, sb_child, sb_cst, sb_timer, sb_handler,
                   sb_killed, sb_eintr, sb_late>>
    /\ SandboxFrame

\* waitpid(pid, &status, 0) returns pid: the child has ended and is reaped
SbWaitStatus ==
    /\ sb_pc \in {"waitpid", "blocked"}
    /\ sb_child = "zombie"
    /\ sb_child' = "reaped"
    /\ sb_status' = sb_cst
    /\ sb_pc' = "classify"
    /\ UNCHANGED <<sb_ret, sb_out, sb_cst, sb_timer, sb_handler,
                   sb_killed, sb_eintr, sb_late>>
    /\ SandboxFrame

\* the timer expires: SIGALRM runs alarm_handler, which does nothing; a
\* waitpid sleeping for a running child returns -1 with errno EINTR
SbTimerFire ==
    /\ sb_timer = "armed"
    /\ sb_timer' = "fired"
    /\ IF sb_pc = "blocked" /\ sb_child = "running"
         THEN sb_pc' = "kill" /\ sb_eintr' = TRUE
         ELSE UNCHANGED <<sb_pc, sb_eintr>>
    /\ UNCHANGED <<sb_ret, sb_status, sb_out, sb_child, sb_cst, sb_handler,
                   sb_killed, sb_late>>
    /\ SandboxFrame

\* slip: 0 is returned as soon as the signal is sent
SbKill_Return ==
    /\ sb_pc = "kill"
    /\ sb_killed' = TRUE
    /\ sb_ret' = 0
    /\ sb_pc' = "returned"
    /\ UNCHANGED <<sb_status, sb_out, sb_child, sb_cst, sb_timer, sb_handler,
                   sb_eintr, sb_late>>
    /\ SandboxFrame

\* "kill(pid, SIGKILL);"
SbKill ==
    /\ sb_pc = "kill"
    /\ sb_killed' = TRUE
    /\ sb_pc' = "reap"
    /\ UNCHANGED <<sb_ret, sb_status, sb_out, sb_child, sb_cst, sb_timer, sb_handler,
                   sb_eintr, sb_late>>
    /\ SandboxFrame

\* slip: 0 is returned right after kill, without the second waitpid
SbReap_NoWait ==
    /\ sb_pc = "reap"
    /\ sb_out' = IF verbose THEN "timed out" ELSE sb_out
    /\ sb_ret' = 0
    /\ sb_pc' = "returned"
    /\ UNCHANGED <<sb_status, sb_child, sb_cst, sb_timer, sb_handler, sb_killed,
                   sb_eintr, sb_late>>
    /\ SandboxFrame

\* "waitpid(pid, NULL, 0); if (verbose) printf(...); return 0;"
SbReap ==
    /\ sb_pc = "reap"
    /\ sb_child \in {"zombie", "gone"}
    /\ sb_child' = IF sb_child = "zombie" THEN "reaped" ELSE "gone"
    /\ sb_out' = IF verbose THEN "timed out" ELSE sb_out
    /\ sb_ret' = 0
    /\ sb_pc' = "returned"
    /\ UNCHANGED <<sb_status, sb_cst, sb_timer, sb_handler, sb_killed, sb_eintr, sb_late>>
    /\ SandboxFrame

\* "if (WIFEXITED(status)) ... if (WIFSIGNALED(status)) ... return -1;"
Classify(st) ==
    IF WIFEXITED(st) THEN (IF WEXITSTATUS(st) = 0 THEN 1 ELSE 0)
    ELSE IF WIFSIGNALED(st) THEN 0
    ELSE -1

\* the message that goes with a status
Message(st) ==
    IF WIFEXITED(st) THEN (IF WEXITSTATUS(st) = 0 THEN "nice" ELSE "exited")
    ELSE IF WIFSIGNALED(st) THEN "signal"
    ELSE "none"

\* the analysis of status and the return that follows
SbClassify ==
    /\ sb_pc = "classify"
    /\ sb_ret' = Classify(sb_status)
    /\ sb_out' = IF verbose THEN Message(sb_status) ELSE sb_out
    /\ sb_pc' = "returned"
    /\ UNCHANGED <<sb_status, sb_child, sb_cst, sb_timer, sb_handler,
                   sb_killed, sb_eintr, sb_late>>
    /\ SandboxFrame

\* an ended child stays a zombie until it is waited for, unless SIGCHLD is
\* ignored: then the kernel discards it at once
Ended == IF sigchld = "ignore" THEN "gone" ELSE "zombie"

\* child: "f(); exit(0);" ends, by exit(0) after f returned, by an exit
\* inside f, or by a signal raised in f
SbChildEnd ==
    /\ sb_child = "running"
    /\ \E st \in Statuses : sb_cst' = st
    /\ sb_child' = Ended
    /\ sb_late' = (sb_timer = "fired")
    /\ UNCHANGED <<sb_pc, sb_ret, sb_status, sb_out, sb_timer, sb_handler,
                   sb_killed, sb_eintr>>
    /\ SandboxFrame

\* the SIGKILL sent by the supervisor ends the child
SbChildKilled ==
    /\ sb_child = "running"
    /\ sb_killed
    /\ sb_cst' = Signaled(9)
    /\ sb_child' = Ended
    /\ sb_late' = TRUE
    /\ UNCHANGED <<sb_pc, sb_ret, sb_status, sb_out, sb_timer, sb_handler,
                   sb_killed, sb_eintr>>
    /\ SandboxFrame

NextSandbox ==
    \/ SbSigaction
    \/ SbForkFail
    \/ SbForkOk
    \/ SbAlarm
    \/ SbWaitBlock
    \/ SbWaitStatus
    \/ SbTimerFire
    \/ SbKill
    \/ SbReap
    \/ SbClassify
    \/ SbChildEnd
    \/ SbChildKilled

SpecSandbox == InitSandbox /\ [][NextSandbox]_vars

\* the first waitpid fails with ECHILD, the child having ended and being
\* already discarded: "return -1;  // Other type of error"
SbWaitEchild ==
    /\ sb_pc \in {"waitpid", "blocked"}
    /\ sb_child = "gone"
    /\ sb_ret' = -1
    /\ sb_pc' = "returned"
    /\ UNCHANGED <<sb_status, sb_out, sb_child, sb_cst, sb_timer, sb_handler,
                   sb_killed, sb_eintr, sb_late>>
    /\ SandboxFrame

\* a call of sandbox in a process that may have SIGCHLD ignored
InitSandboxEnv ==
    /\ verbose \in BOOLEAN
    /\ sigchld \in {"default", "ignore"}
    /\ sb_pc = "sigaction" /\ sb_ret = -1 /\ sb_status = NoStatus /\ sb_out = "none"
    /\ sb_child = "none" /\ sb_cst = NoStatus
    /\ sb_timer = "off" /\ sb_handler = "default"
    /\ sb_killed = FALSE /\ sb_eintr = FALSE /\ sb_late = FALSE
    /\ pfd = StdTable
    /\ nchan = 0
    /\ PicoIdle
    /\ PopenIdle
    /\ DataIdle

NextSandboxEnv ==
    \/ SbSigaction
    \/ SbForkFail
    \/ SbForkOk
    \/ SbAlarm
    \/ SbWaitBlock
    \/ SbWaitStatus
    \/ SbWaitEchild
    \/ SbTimerFire
    \/ SbKill
    \/ SbReap
    \/ SbClassify
    \/ SbChildEnd
    \/ SbChildKilled

SpecSandboxEnv == InitSandboxEnv /\ [][NextSandboxEnv]_vars

\* the supervisor is a running process, and a SIGKILL that was sent is
\* delivered; nothing is assumed about f or about the timer
SupervisorStep ==
    \/ SbSigaction \/ SbForkFail \/ SbForkOk \/ SbAlarm \/ SbWaitBlock
    \/ SbWaitStatus \/ SbKill \/ SbReap \/ SbClassify
SpecSandboxFair ==
    InitSandbox /\ [][NextSandbox]_vars
        /\ WF_vars(SupervisorStep) /\ WF_vars(SbChildKilled)

\* ======================================================= data in the pipes
Bytes == {1, 2}
\* the transformer's function on one byte
F(b) == b + 10

RECURSIVE MapF(_)
MapF(q) == IF q = <<>> THEN <<>> ELSE <<F(Head(q))>> \o MapF(Tail(q))

\* sequences over Bytes of length 0 .. n
SeqsUpTo(n) == UNION {[1 .. m -> Bytes] : m \in 0 .. n}

Producer == 0
Transformer == 1
Consumer == 2

\* picoshell called with three commands: producer | transformer | consumer
InitData ==
    /\ N = 3
    /\ pc = "head" /\ i = 0 /\ prev_fd = NoFd
    /\ pipefd = <<Uninit, Uninit>>
    /\ status = NoStatus /\ exit_code = 0 /\ ret = -1
    /\ pfd = StdTable /\ nchan = 0
    /\ cpc = [k \in Stages |-> "none"]
    /\ cst = [k \in Stages |-> NoStatus]
    /\ cfd = [k \in Stages |-> NoTable]
    /\ cprev = [k \in Stages |-> NoFd]
    /\ cpipe = [k \in Stages |-> <<Uninit, Uninit>>]
    /\ abort = "none"
    /\ cause = [k \in Stages |-> "none"]
    /\ closelog = <<>>
    /\ nfork = 0
    /\ PopenIdle
    /\ SandboxIdle
    /\ buf = [c \in Stages |-> <<>>]
    /\ src \in SeqsUpTo(DataLen)
    /\ out_left = src
    /\ held = <<>> /\ sink = <<>>
    /\ eofseen = {} /\ term = <<>>

\* the descriptions behind a stage's standard input and output
In(k) == cfd[k][STDIN_FILENO]
Out(k) == cfd[k][STDOUT_FILENO]
\* some process holds the read end, the write end, of channel c
Held(d) == \E f \in Fds : pfd[f] = d \/ \E k \in Stages : cfd[k][f] = d
HasReader(c) == Held(Rd(c))
HasWriter(c) == Held(Wr(c))

\* read(0, ...) returns a byte: the pipe is not empty
CanRead(k) == In(k).kind = "r" /\ buf[In(k).ch] # <<>>
\* read(0, ...) returns 0: the pipe is empty and every write end is closed
AtEof(k) == In(k).kind = "r" /\ buf[In(k).ch] = <<>> /\ ~HasWriter(In(k).ch)
\* write(1, ...) does not block: the pipe has room, or stdout is the terminal
CanWrite(k) ==
    \/ Out(k).kind = "tty"
    \/ Out(k).kind = "w" /\ Len(buf[Out(k).ch]) < Cap /\ HasReader(Out(k).ch)
\* write(1, ...) raises SIGPIPE: every read end is closed
Broken(k) == Out(k).kind = "w" /\ ~HasReader(Out(k).ch)

\* the effect of read and write on the pipes and the terminal
TakeByte(k) == buf' = [buf EXCEPT ![In(k).ch] = Tail(@)]
PutByte(k, b) ==
    IF Out(k).kind = "w"
      THEN buf' = [buf EXCEPT ![Out(k).ch] = Append(@, b)] /\ UNCHANGED term
      ELSE term' = Append(term, b) /\ UNCHANGED buf

\* what a step of a running program leaves alone
ProgFrame ==
    /\ UNCHANGED <<cprev, cpipe>>
    /\ UNCHANGED parentVars
    /\ UNCHANGED <<popenVars, sandboxVars>>
    /\ UNCHANGED src

ProgStays == UNCHANGED <<cpc, cst, cfd, cause>>

\* write(1, &b, 1) by stage k: the byte goes into the pipe or to the
\* terminal, or the stage is killed by SIGPIPE when no read end is open
WriteByte(k, b) ==
    IF Broken(k)
      THEN Die(k, Signaled(13), "prog") /\ UNCHANGED <<buf, term>>
      ELSE CanWrite(k) /\ PutByte(k, b) /\ ProgStays

\* producer: writes its next byte to stdout
ProdWrite ==
    /\ cpc[Producer] = "running"
    /\ out_left # <<>>
    /\ WriteByte(Producer, Head(out_left))
    /\ out_left' = Tail(out_left)
    /\ UNCHANGED <<held, sink, eofseen>>
    /\ ProgFrame

\* producer: everything is written, exit(0)
ProdExit ==
    /\ cpc[Producer] = "running"
    /\ out_left = <<>>
    /\ Die(Producer, Exited(0), "prog")
    /\ UNCHANGED <<buf, out_left, held, sink, eofseen, term>>
    /\ ProgFrame

\* transformer: reads one byte from stdin
TransRead ==
    /\ cpc[Transformer] = "running"
    /\ held = <<>>
    /\ CanRead(Transformer)
    /\ held' = <<Head(buf[In(Transformer).ch])>>
    /\ TakeByte(Transformer)
    /\ ProgStays
    /\ UNCHANGED <<out_left, sink, eofseen, term>>
    /\ ProgFrame

\* transformer: writes the image of the byte it holds to stdout
TransWrite ==
    /\ cpc[Transformer] = "running"
    /\ held # <<>>
    /\ WriteByte(Transformer, F(held[1]))
    /\ held' = <<>>
    /\ UNCHANGED <<out_left, sink, eofseen>>
    /\ ProgFrame

\* transformer: read returns 0, exit(0)
TransEof ==
    /\ cpc[Transformer] = "running"
    /\ held = <<>>
    /\ AtEof(Transformer)
    /\ eofseen' = eofseen \cup {Transformer}
    /\ Die(Transformer, Exited(0), "prog")
    /\ UNCHANGED <<buf, out_left, held, sink, term>>
    /\ ProgFrame

\* consumer: reads one byte from stdin
ConsRead ==
    /\ cpc[Consumer] = "running"
    /\ CanRead(Consumer)
    /\ sink' = Append(sink, Head(buf[In(Consumer).ch]))
    /\ TakeByte(Consumer)
    /\ ProgStays
    /\ UNCHANGED <<out_left, held, eofseen, term>>
    /\ ProgFrame

\* consumer: read returns 0, exit(0)
ConsEof ==
    /\ cpc[Consumer] = "running"
    /\ AtEof(Consumer)
    /\ eofseen' = eofseen \cup {Consumer}
    /\ Die(Consumer, Exited(0), "prog")
    /\ UNCHANGED <<buf, out_left, held, sink, term>>
    /\ ProgFrame

\* the launch of the three stages, every call succeeding
DataOrchestratorStep ==
    \/ LoopHead \/ PipeSkip \/ PipeOk \/ ForkOk \/ ParentClosePrev \/ ParentAdvance
    \/ WaitDone \/ \E k \in Stages : WaitReap(k)
DataWiringStep(k) ==
    \/ ChildDupIn(k) \/ ChildClosePrev(k) \/ ChildCloseR(k)
    \/ ChildDupOut(k) \/ ChildCloseW(k) \/ ChildExec(k)
DataProgStep ==
    \/ ProdWrite \/ ProdExit \/ TransRead \/ TransWrite \/ TransEof
    \/ ConsRead \/ ConsEof

NextData ==
    \/ LoopHead
    \/ PipeSkip
    \/ PipeOk
    \/ ForkOk
    \/ ParentClosePrev
    \/ ParentAdvance
    \/ \E k \in Stages : WaitReap(k)
    \/ WaitDone
    \/ \E k \in Stages : ChildDupIn(k)
    \/ \E k \in Stages : ChildClosePrev(k)
    \/ \E k \in Stages : ChildCloseR(k)
    \/ \E k \in Stages : ChildDupOut(k)
    \/ \E k \in Stages : ChildCloseW(k)
    \/ \E k \in Stages : ChildExec(k)
    \/ ProdWrite
    \/ ProdExit
    \/ TransRead
    \/ TransWrite
    \/ TransEof
    \/ ConsRead
    \/ ConsEof
   

\* every process is scheduled: the orchestrator, the children on their way
\* to execvp, and the three programs
SpecData ==
    InitData /\ [][NextData]_vars
        /\ WF_vars(DataOrchestratorStep)
        /\ \A k \in Stages : WF_vars(DataWiringStep(k))
        /\ WF_vars(ProdWrite \/ ProdExit)
        /\ WF_vars(TransRead \/ TransWrite \/ TransEof)
        /\ WF_vars(ConsRead \/ ConsEof)

\* transformer: exits before its input has ended (a program such as head)
TransQuit ==
    /\ cpc[Transformer] = "running"
    /\ Die(Transformer, Exited(0), "prog")
    /\ UNCHANGED <<buf, out_left, held, sink, eofseen, term>>
    /\ ProgFrame

\* consumer: exits before its input has ended
ConsQuit ==
    /\ cpc[Consumer] = "running"
    /\ Die(Consumer, Exited(0), "prog")
    /\ UNCHANGED <<buf, out_left, held, sink, eofseen, term>>
    /\ ProgFrame

NextDataEarly ==
    \/ LoopHead
    \/ PipeSkip
    \/ PipeOk
    \/ ForkOk
    \/ ParentClosePrev
    \/ ParentAdvance
    \/ \E k \in Stages : WaitReap(k)
    \/ WaitDone
    \/ \E k \in Stages : ChildDupIn(k)
    \/ \E k \in Stages : ChildClosePrev(k)
    \/ \E k \in Stages : ChildCloseR(k)
    \/ \E k \in Stages : ChildDupOut(k)
    \/ \E k \in Stages : ChildCloseW(k)
    \/ \E k \in Stages : ChildExec(k)
    \/ ProdWrite
    \/ ProdExit
    \/ TransRead
    \/ TransWrite
    \/ TransEof
    \/ TransQuit
    \/ ConsRead
    \/ ConsEof
    \/ ConsQuit

\* every process is scheduled; a reader may exit early at any moment, but
\* is not bound to
SpecDataEarly ==
    InitData /\ [][NextDataEarly]_vars
        /\ WF_vars(DataOrchestratorStep)
        /\ \A k \in Stages : WF_vars(DataWiringStep(k))
        /\ WF_vars(ProdWrite \/ ProdExit)
        /\ WF_vars(TransRead \/ TransWrite \/ TransEof)
        /\ WF_vars(ConsRead \/ ConsEof)

\* fair scheduling with a timer that does expire: the supervisor runs, a
\* SIGKILL that was sent is delivered, an armed timer fires; f is free
\* never to end
SpecSandboxTimed ==
    InitSandbox /\ [][NextSandbox]_vars
        /\ WF_vars(SupervisorStep) /\ WF_vars(SbChildKilled) /\ WF_vars(SbTimerFire)

\* ---------------------------------------------------------- type check
TypeOK ==
    /\ N \in 0 .. MaxStages
    /\ pc \in {"head", "pipe", "fork", "ff_close_r", "ff_close_w",
               "p_close_prev", "p_advance", "wait", "returned"}
    /\ i \in 0 .. MaxStages
    /\ prev_fd \in Fds \cup {NoFd}
    /\ exit_code \in {0, 1}
    /\ ret \in {-1, 0, 1}
    /\ nchan \in 0 .. MaxStages

\* ------------------------------------------------ observation helpers
Returned == pc = "returned"
Forked(k) == cpc[k] # "none"
Terminated(k) == cpc[k] \in {"zombie", "reaped"}
Alive(k) == Forked(k) /\ ~Terminated(k)
AllLaunched == N >= 1 /\ \A k \in 0 .. (N - 1) : Forked(k)
ParentChanFds == {f \in Fds : IsChan(pfd[f])}
StageHolders(d) == {k \in Stages : \E f \in Fds : cfd[k][f] = d}
ParentHolds(d) == \E f \in Fds : pfd[f] = d
Channels == 0 .. (N - 2)
AtExec(k) == cpc[k] = "c_exec"
Wired(k) == cpc[k] \in {"c_exec", "running", "zombie", "reaped"}

\* C1: when construction does not fail and every stage exits with code 0,
\* picoshell returns 0, whatever the order in which the stages terminate.
C1_AllZeroIsSuccess ==
    (Returned /\ AllLaunched /\ \A k \in 0 .. (N - 1) : cst[k] = Exited(0))
        => ret = 0

C1_Witness ==
    /\ Returned /\ N >= 2 /\ AllLaunched
    /\ \A k \in 0 .. (N - 1) : cst[k] = Exited(0) /\ cpc[k] = "reaped"
    /\ ret = 0

\* C2: when all stages are launched and at least one of them exits with a
\* non-zero code, picoshell returns 1, whatever that stage's position and
\* whatever the other stages' outcomes.
C2_NonZeroExitIsFailure ==
    (Returned /\ AllLaunched
        /\ \E k \in 0 .. (N - 1) : WIFEXITED(cst[k]) /\ WEXITSTATUS(cst[k]) # 0)
        => ret = 1

C2_Witness ==
    /\ Returned /\ N >= 2 /\ AllLaunched
    /\ cst[N - 1] = Exited(1)
    /\ WIFSIGNALED(cst[0])
    /\ status = cst[0]
    /\ ret = 1

\* C3: when all stages are launched and at least one of them is killed by a
\* signal, picoshell returns 1, even if every other stage exits with code 0.
C3_SignaledIsFailure ==
    (Returned /\ AllLaunched /\ \E k \in 0 .. (N - 1) : WIFSIGNALED(cst[k]))
        => ret = 1

\* C4: on every return path, every child the call forked has terminated and
\* has been reaped by wait.
C4_ReturnedMeansAllReaped ==
    Returned => \A k \in Stages : Forked(k) => cpc[k] = "reaped"

\* C5: on every return path the orchestrator holds no open pipe endpoint
\* created by the call.
C5_ReturnedMeansNoEndpoint ==
    Returned => ParentChanFds = {}

\* C6: at every iteration boundary of the launch loop the orchestrator holds
\* at most one pipe endpoint, which is prev_fd, the read end of the most
\* recently created pipe, and it holds no write end.
C6_BoundaryHoldsOnlyPending ==
    pc = "head" =>
        /\ Cardinality(ParentChanFds) <= 1
        /\ \A f \in ParentChanFds : f = prev_fd /\ pfd[f] = Rd(nchan - 1)
        /\ \A f \in Fds : pfd[f].kind # "w"

C6_Witness ==
    /\ pc = "head" /\ i = 2 /\ N >= 3
    /\ ParentChanFds = {prev_fd}
    /\ pfd[prev_fd] = Rd(1)

\* C7: in a fully launched pipeline, once stage c has terminated no process
\* holds an open write end of pipe c, so its reader sees end-of-stream.
C7_NoWriterAfterStageDeath ==
    \A c \in Channels :
        (AllLaunched /\ Terminated(c)) =>
            (StageHolders(Wr(c)) = {} /\ ~ParentHolds(Wr(c)))

C7_Witness ==
    /\ N = 2 /\ AllLaunched
    /\ cst[0] = Exited(1) /\ Terminated(0)
    /\ cpc[1] = "running"
    /\ cfd[1][STDIN_FILENO] = Rd(0)
    /\ StageHolders(Wr(0)) = {}

\* C8: when stage k calls execvp, its standard input is the read end of pipe
\* k-1 (the orchestrator's standard input for k = 0) and its standard output
\* is the write end of pipe k (the orchestrator's standard output for the
\* last stage).
C8_StdStreamsAtExec ==
    \A k \in Stages : AtExec(k) =>
        /\ cfd[k][STDIN_FILENO] = IF k > 0 THEN Rd(k - 1) ELSE pfd[STDIN_FILENO]
        /\ cfd[k][STDOUT_FILENO] = IF HasNext(k) THEN Wr(k) ELSE pfd[STDOUT_FILENO]

C8_Witness ==
    /\ N >= 3 /\ AtExec(1)
    /\ cfd[1][STDIN_FILENO] = Rd(0)
    /\ cfd[1][STDOUT_FILENO] = Wr(1)

\* C9: when a stage calls execvp it holds no pipe endpoint besides its
\* standard input and output: its copies of prev_fd, pipefd[0] and pipefd[1]
\* are closed.
C9_NoStrayHandleAtExec ==
    \A k \in Stages : AtExec(k) =>
        /\ \A f \in Fds \ {STDIN_FILENO, STDOUT_FILENO} : ~IsChan(cfd[k][f])
        /\ cprev[k] # NoFd => ~IsOpen(cfd[k], cprev[k])
        /\ HasNext(k) => (~IsOpen(cfd[k], cpipe[k][1]) /\ ~IsOpen(cfd[k], cpipe[k][2]))

C9_Witness ==
    /\ N >= 3 /\ AtExec(1)
    /\ cprev[1] = 3 /\ cpipe[1] = <<4, 5>>
    /\ \A f \in Fds \ {0, 1, 2} : cfd[1][f] = Closed

\* C10: once the launch loop is over and every child is past its wiring,
\* the write end of pipe c is open in stage c only (as its standard output)
\* and the read end in stage c+1 only (as its standard input), in exactly
\* that process while it has not terminated; and no stage ever holds an
\* endpoint of a pipe older than the one feeding it.
C10_OneOwnerPerEndpoint ==
    /\ (pc \in {"wait", "returned"} /\ AllLaunched /\ \A k \in 0 .. (N - 1) : Wired(k)) =>
          /\ ParentChanFds = {}
          /\ \A c \in Channels :
                /\ StageHolders(Wr(c)) = (IF Alive(c) THEN {c} ELSE {})
                /\ StageHolders(Rd(c)) = (IF Alive(c + 1) THEN {c + 1} ELSE {})
                /\ Alive(c) => cfd[c][STDOUT_FILENO] = Wr(c)
                /\ Alive(c + 1) => cfd[c + 1][STDIN_FILENO] = Rd(c)
    /\ \A k \in Stages : \A f \in Fds :
          IsChan(cfd[k][f]) =>
              \/ cfd[k][f] = Rd(k - 1)
              \/ cfd[k][f].ch = k

C10_Witness ==
    /\ pc = "wait" /\ N >= 3 /\ AllLaunched
    /\ \A k \in 0 .. (N - 1) : cpc[k] = "running"
    /\ StageHolders(Wr(1)) = {1}
    /\ StageHolders(Rd(1)) = {2}

\* C11: when all N stages have been launched, picoshell returns only after
\* each of the N children has been reaped: a recorded failure does not end
\* the collection loop while a child remains.
C11_FullLaunchReturnsAfterAllReaped ==
    /\ (Returned /\ AllLaunched) => \A k \in 0 .. (N - 1) : cpc[k] = "reaped"
    /\ (pc = "wait" /\ exit_code = 1 /\ \E k \in Stages : Forked(k) /\ cpc[k] # "reaped")
          => ~ENABLED WaitDone

C11_Witness ==
    /\ Returned /\ N >= 2 /\ AllLaunched
    /\ cst[0] = Exited(1) /\ cst[N - 1] = Exited(0)
    /\ status = cst[N - 1]
    /\ \A k \in 0 .. (N - 1) : cpc[k] = "reaped"

\* the verdict as a function of the stages' statuses alone
Verdict == IF \E k \in 0 .. (N - 1) : WIFEXITED(cst[k]) /\ WEXITSTATUS(cst[k]) # 0
           THEN 1 ELSE 0

\* C12: the return value of a fully launched pipeline is a function of the
\* statuses of its stages only, hence the same for every order in which wait
\* delivers the terminations.
C12_VerdictIgnoresOrder ==
    (Returned /\ AllLaunched) => ret = Verdict

C12_Witness ==
    /\ Returned /\ N >= 2 /\ AllLaunched
    /\ cst[0] = Exited(0) /\ cst[1] = Exited(1)
    /\ status = cst[0]
    /\ ret = 1

Aborted == abort # "none"
WiringFault(k) == cause[k] \in {"dup_in", "dup_out"}
LaunchPcs == {"head", "pipe", "fork", "p_close_prev", "p_advance"}
\* the next statement of the launch loop, with pipe() and fork() succeeding
LaunchOk == LoopHead \/ PipeSkip \/ PipeOk \/ ForkOk \/ ParentClosePrev \/ ParentAdvance
\* the only fault of a fully launched pipeline is a program that cannot be executed
OnlyExecFault ==
    /\ AllLaunched
    /\ \E k \in 0 .. (N - 1) : cause[k] = "exec"
    /\ \A k \in 0 .. (N - 1) : cause[k] = "exec" \/ cst[k] = Exited(0)

C14_ExecFailureExitsChild ==
    /\ [](\A k \in Stages : cause[k] = "exec" =>
            (Terminated(k) /\ cst[k] = Exited(1) /\ cfd[k] = NoTable))
    /\ []((Returned /\ \E k \in Stages : cause[k] = "exec") => ret = 1)
    /\ [][\A k \in Stages : cause[k] = "exec" =>
            (Terminated(k)' /\ cst'[k] = cst[k] /\ cfd'[k] = cfd[k]
                /\ (cause'[k] = cause[k]))]_vars
    /\ [][\A k \in Stages : (cause[k] = "none" /\ cause'[k] = "exec") =>
            (cpc[k] = "c_exec" /\ UNCHANGED parentVars)]_vars

C14_Witness ==
    /\ Returned /\ N >= 2 /\ AllLaunched
    /\ cause[1] = "exec" /\ status = Exited(1)
    /\ \A k \in 0 .. (N - 1) : k # 1 => cst[k] = Exited(0)
    /\ ret = 1

\* C15: a child whose dup2 fails ends at once with exit status 1, before
\* execvp; the verdict is 1; the orchestrator's launch loop goes on
\* unaffected.
C15_WiringFailureExitsChild ==
    /\ [](\A k \in Stages : WiringFault(k) => (Terminated(k) /\ cst[k] = Exited(1)))
    /\ []((Returned /\ \E k \in Stages : WiringFault(k)) => ret = 1)
    /\ []((pc \in LaunchPcs /\ \E k \in Stages : WiringFault(k)) => ENABLED LaunchOk)
    /\ [][\A k \in Stages : (cause[k] = "none" /\ WiringFault(k)') =>
            (cpc[k] \in {"c_in", "c_dup_out"} /\ UNCHANGED parentVars)]_vars

C15_Witness ==
    /\ N >= 2 /\ cause[0] = "dup_out"
    /\ pc = "fork" /\ i = 1

\* C16: the launch loop ends early only by a pipe() or fork() failure; after
\* such a failure at stage i no stage j >= i is launched and the result is
\* not success; whatever happened to the stages already launched, the next
\* statement of the loop can be taken.
C16_OnlyConstructionAborts ==
    /\ (pc \in {"wait", "returned"} /\ ~Aborted) => (i = N /\ \A k \in 0 .. (N - 1) : Forked(k))
    /\ Aborted => \A j \in Stages : j >= i => ~Forked(j)
    /\ (Returned /\ Aborted) => ret # 0
    /\ (pc \in LaunchPcs /\ ~Aborted) => ENABLED LaunchOk

C16_Witness ==
    /\ N >= 3 /\ pc = "fork" /\ i = 2 /\ ~Aborted
    /\ cause[0] = "exec"
    /\ WIFSIGNALED(cst[1])

\* C17: a fully launched pipeline of N stages has exactly N-1 pipes; pipe k
\* exists when stage k is forked (stage k inherits both its ends); no pipe is
\* created for the last stage, and none at all for N = 1.
C17_OnePipePerAdjacentPair ==
    /\ AllLaunched => nchan = N - 1
    /\ nchan <= (IF N = 0 THEN 0 ELSE N - 1)
    /\ pc = "fork" => nchan = (IF HasNext(i) THEN i + 1 ELSE i)
    /\ \A k \in Stages : cpc[k] = "c_in" =>
          IF HasNext(k)
            THEN cfd[k][cpipe[k][1]] = Rd(k) /\ cfd[k][cpipe[k][2]] = Wr(k)
            ELSE \A f \in Fds : IsChan(cfd[k][f]) => cfd[k][f].ch < k
    /\ (N = 1 /\ Returned) => \A f \in Fds : ~IsChan(pfd[f]) /\ ~IsChan(cfd[0][f])

C17_Witness ==
    /\ N >= 3 /\ AllLaunched /\ nchan = N - 1
    /\ cpc[N - 1] = "c_in"
    /\ cpc[1] = "c_in"

\* C18: called with zero stages, picoshell launches no process and reports
\* a non-success result.
C18_ZeroStagesRejected ==
    (Returned /\ N = 0) => (ret # 0 /\ \A k \in Stages : ~Forked(k))

\* C19 (second half): picoshell does not return while a stage it launched
\* has not terminated, so it never returns if such a stage never ends.
C19_NoReturnWhileStageRuns ==
    Returned => \A k \in Stages : Forked(k) => Terminated(k)

\* C19 (first half): if every launched stage ends, picoshell returns.
C19_ReturnsWhenStagesEnd == <>Returned

\* C20: the launch loop never blocks: whatever the launched stages do, the
\* orchestrator leaves the loop, and it enters the wait loop after exactly N
\* iterations.
C20_LaunchLoopEnds ==
    /\ <>(pc \in {"wait", "returned"})
    /\ [](pc = "wait" => (i = N /\ \A k \in 0 .. (N - 1) : Forked(k)))

C20_Witness ==
    /\ pc = "wait" /\ i = N /\ N >= 2
    /\ \A k \in 0 .. (N - 1) : cpc[k] = "c_in"

\* ---------------------------------------------------------------- C22
OwnCauses == {"dup_in", "dup_out", "exec", "prog"}

\* C22: the orchestrator never ends a stage it launched: a stage passes from
\* alive to terminated only by a step of its own (a failed dup2 or execvp, or
\* the end of its command), a step in which the orchestrator does nothing;
\* and when a fully launched pipeline has returned, every stage has ended by
\* such a step and has been reaped, whatever failure was recorded before.
C22_StagesEndNaturally ==
    /\ [][\A k \in Stages :
            (Alive(k) /\ cpc'[k] \in {"zombie", "reaped"})
                => /\ UNCHANGED parentVars
                   /\ cpc'[k] = "zombie"
                   /\ cause'[k] \in OwnCauses]_vars
    /\ [](Returned /\ AllLaunched
            => \A k \in 0 .. (N - 1) : cpc[k] = "reaped" /\ cause[k] \in OwnCauses)

\* a failure was recorded, and a sibling that was still running at that
\* moment ended by itself with status 0 and was collected last
C22_Witness ==
    /\ Returned /\ N >= 2
    /\ exit_code = 1
    /\ status = Exited(0)
    /\ \E j, k \in 0 .. (N - 1) :
          /\ j # k
          /\ cst[j] = Exited(1) /\ cpc[j] = "reaped"
          /\ cst[k] = Exited(0) /\ cpc[k] = "reaped" /\ cause[k] = "prog"

\* ---------------------------------------------------------------- C27
\* C27: at every iteration boundary prev_fd is -1 before the first stage and
\* after the bookkeeping of the last one, and otherwise the open read end of
\* the pipe created for the stage just launched; prev_fd never names a
\* descriptor the orchestrator has closed.
C27_ChainState ==
    /\ pc = "head" =>
          /\ i = 0 => prev_fd = NoFd
          /\ i >= N => prev_fd = NoFd
          /\ (0 < i /\ i < N) => IsOpen(pfd, prev_fd) /\ pfd[prev_fd] = Rd(i - 1)
    /\ prev_fd # NoFd => IsOpen(pfd, prev_fd)

\* ---------------------------------------------------------------- C28
\* the orchestrator's close(prev_fd) calls that released the read end of c
PrevCloses(c) ==
    {n \in 1 .. Len(closelog) : closelog[n].via = "prev_fd" /\ closelog[n].d = Rd(c)}
\* the orchestrator's bookkeeping for stage c + 1 is past "close(prev_fd)"
HandedOff(c) == i > c + 1 \/ (i = c + 1 /\ pc = "p_advance")
\* the stage is past its stdin block and has not ended
PastStdin(k) ==
    cpc[k] \in {"c_close_prev", "c_close_r", "c_dup_out", "c_close_w", "c_exec", "running"}

ForkedStages == {k \in Stages : Forked(k)}
\* the parent-side bookkeeping of iteration k is complete
BookDone(k) == i > k

\* C29: the m-th successful fork() creates stage m - 1, so stages are forked
\* in pipeline order and no command is forked twice; a stage exists only
\* when every earlier stage exists and its parent-side bookkeeping is done;
\* the wait loop is entered with exactly N children created; and neither
\* the end of a running command nor the collection of an ended stage is
\* guarded by the state of any other stage.
C29_ForkedInPipelineOrder ==
    /\ [][\A k \in Stages :
            (~Forked(k) /\ cpc'[k] # "none")
                => k = nfork /\ k = i /\ nfork' = nfork + 1]_vars
    /\ [](/\ nfork = Cardinality(ForkedStages)
          /\ \A k \in ForkedStages :
                k < N /\ \A j \in 0 .. (k - 1) : Forked(j) /\ BookDone(j)
          /\ \A k \in Stages :
                Forked(k) <=> (i > k \/ (i = k /\ pc \in {"p_close_prev", "p_advance"}))
          /\ pc = "wait" => nfork = N /\ ForkedStages = 0 .. (N - 1)
          /\ \A k \in Stages : cpc[k] = "running" => ENABLED ChildTerminate(k)
          /\ \A k \in Stages :
                (pc = "wait" /\ cpc[k] = "zombie") => ENABLED WaitReap(k))

\* three children were created in order, and the last stage has ended and
\* been collected while the first is still running
C29_Witness ==
    /\ N = 3 /\ nfork = 3 /\ pc = "wait"
    /\ cpc[2] = "reaped"
    /\ cpc[0] = "running"

\* ================================================= ft_popen: properties
PopenTypeOK ==
    /\ ft_pc \in {"idle", "check", "pipe", "fork", "ff_close0", "ff_close1",
                  "p_close", "returned", "closed"}
    /\ ft_cpc \in {"none", "c_dup", "c_close0", "c_close1", "c_exec", "running",
                   "c_p_close", "c_returned", "zombie", "reaped"}
    /\ ft_ret \in Fds \cup {-1}
    /\ ft_cret \in Fds \cup {-1}
    /\ nchan \in {0, 1}

\* descriptors of a table that refer to description d
Handles(tbl, d) == {f \in Fds : tbl[f] = d}
\* the channel created by this call
PopenChan == nchan - 1
PopenSucceeded == ft_pc = "returned" /\ ft_ret # -1
PopenChildAlive == ft_cpc \notin {"none", "zombie"}

\* C23: when ft_popen has returned a descriptor to its caller, for 'r' that
\* descriptor is the caller's only handle to the new channel and is its read
\* end, the caller holds no write end, and the child, once it has rebound
\* its stream, has the write end as its standard output; for 'w' the same
\* with the ends exchanged and the child's standard input.
C23_CallerGetsOneEndpoint ==
    PopenSucceeded =>
        /\ nchan = 1
        /\ type = "r" =>
              /\ Handles(pfd, Rd(PopenChan)) = {ft_ret}
              /\ Handles(pfd, Wr(PopenChan)) = {}
              /\ ft_cpc \in {"c_close0", "c_close1", "c_exec", "running"}
                    => ft_cfd[STDOUT_FILENO] = Wr(PopenChan)
        /\ type = "w" =>
              /\ Handles(pfd, Wr(PopenChan)) = {ft_ret}
              /\ Handles(pfd, Rd(PopenChan)) = {}
              /\ ft_cpc \in {"c_close0", "c_close1", "c_exec", "running"}
                    => ft_cfd[STDIN_FILENO] = Rd(PopenChan)

\* a 'r' call has returned and the program runs with the write end as stdout
C23_Witness ==
    /\ PopenSucceeded /\ type = "r"
    /\ ft_cpc = "running"
    /\ ft_cfd[STDOUT_FILENO] = Wr(PopenChan)
    /\ pfd[ft_ret] = Rd(PopenChan)

\* a 'w' call has returned and the program runs with the read end as stdin
C23_WitnessW ==
    /\ PopenSucceeded /\ type = "w"
    /\ ft_cpc = "running"
    /\ ft_cfd[STDIN_FILENO] = Rd(PopenChan)
    /\ pfd[ft_ret] = Wr(PopenChan)

\* ---------------------------------------------------------------- C24
BadArgs == file = "NULL" \/ argv = "NULL" \/ type \notin {"r", "w"}

\* C24: when ft_popen has returned -1 there is no child and the caller's
\* descriptor table holds no end of any pipe; with a NULL file, a NULL argv
\* or a type other than 'r' and 'w', no pipe and no child exist at any
\* moment of the call.
C24_FailureLeavesNothing ==
    /\ (ft_pc = "returned" /\ ft_ret = -1) =>
          /\ ft_cpc = "none"
          /\ \A f \in Fds : ~IsChan(pfd[f])
    /\ BadArgs => (nchan = 0 /\ ft_cpc = "none" /\ ft_pc \in {"check", "returned"})

\* fork() failed after the pipe was created, and -1 was returned
C24_Witness ==
    /\ ft_pc = "returned" /\ ft_ret = -1
    /\ nchan = 1
    /\ ~BadArgs

\* ---------------------------------------------------------------- C30
\* C30: when the child is about to call execvp, its only handle to the
\* channel is the standard stream it was rebound to (descriptor 1 and the
\* write end for 'r', descriptor 0 and the read end for 'w') and fds[0],
\* fds[1] are closed in it; for 'w' the write end is then held by the
\* caller's returned descriptor alone, so once the caller has closed that
\* descriptor no process holds the write end and the child reads
\* end-of-stream.
C30_ChildHoldsOneReference ==
    /\ ft_cpc = "c_exec" =>
          /\ ~IsOpen(ft_cfd, fds[1]) /\ ~IsOpen(ft_cfd, fds[2])
          /\ type = "r" => /\ Handles(ft_cfd, Wr(PopenChan)) = {STDOUT_FILENO}
                           /\ Handles(ft_cfd, Rd(PopenChan)) = {}
          /\ type = "w" => /\ Handles(ft_cfd, Rd(PopenChan)) = {STDIN_FILENO}
                           /\ Handles(ft_cfd, Wr(PopenChan)) = {}
    /\ (type = "w" /\ ft_cpc \in {"c_exec", "running"}) =>
          /\ Handles(ft_cfd, Wr(PopenChan)) = {}
          /\ ft_pc = "returned" => Handles(pfd, Wr(PopenChan)) = {ft_ret}
          /\ ft_pc = "closed" => Handles(pfd, Wr(PopenChan)) = {}

\* a 'w' child is at execvp with the read end as stdin after the caller
\* closed the descriptor it was given
C30_Witness ==
    /\ type = "w" /\ ft_cpc = "c_exec"
    /\ ft_pc = "closed"
    /\ ft_cfd[STDIN_FILENO] = Rd(PopenChan)

\* =================================================== sandbox: properties
SandboxTypeOK ==
    /\ sb_pc \in {"idle", "sigaction", "fork", "alarm", "waitpid", "blocked",
                  "kill", "reap", "classify", "returned"}
    /\ sb_ret \in {-1, 0, 1}
    /\ sb_child \in {"none", "running", "zombie", "reaped", "gone"}
    /\ sigchld \in {"default", "ignore"}
    /\ sb_timer \in {"off", "armed", "fired"}
    /\ sb_status \in Statuses \cup {NoStatus}
    /\ sb_cst \in Statuses \cup {NoStatus}

\* ---------------------------------------------------------------- C25
SbReturned == sb_pc = "returned"
\* the child ended by itself with exit code 0 before the timer fired
GoodInTime == sb_cst = Exited(0) /\ ~sb_late

\* C25: sandbox returns 1 exactly when the child ended with exit code 0
\* before the deadline, 0 when the child ended with another exit code or by
\* a signal, and -1 when fork failed, with no child then; no other value
\* is returned.
C25_ThreeWayVerdict ==
    SbReturned =>
        /\ sb_ret \in {1, 0, -1}
        /\ sb_ret = 1 <=> GoodInTime
        /\ ((WIFEXITED(sb_cst) /\ WEXITSTATUS(sb_cst) # 0) \/ WIFSIGNALED(sb_cst))
              => sb_ret = 0
        /\ sb_child = "none" <=> sb_ret = -1

\* the same without the deadline: the verdict follows the status that the
\* first waitpid collected (holds)
C25_VerdictByStatus ==
    SbReturned =>
        /\ sb_ret \in {1, 0, -1}
        /\ sb_ret = 1 <=> (sb_cst = Exited(0) /\ ~sb_eintr)
        /\ ((WIFEXITED(sb_cst) /\ WEXITSTATUS(sb_cst) # 0) \/ WIFSIGNALED(sb_cst))
              => sb_ret = 0
        /\ sb_child = "none" <=> sb_ret = -1
        /\ sb_ret = 1 => GoodInTime \/ ~sb_eintr

\* ---------------------------------------------------------------- C26
\* C26: when the timer fires while the supervisor sleeps in waitpid for a
\* running child, the supervisor's next statement is kill(pid, SIGKILL),
\* the one after it the second waitpid, which returns only when the child
\* has ended and reaps it, and only then 0 is returned; so a timeout result
\* is returned with the child reaped, and it is always returned.
C26_TimeoutKillsThenReaps ==
    /\ [][(sb_pc = "blocked" /\ sb_child = "running" /\ sb_timer' # sb_timer)
            => sb_pc' = "kill"]_vars
    /\ [][(sb_pc = "kill" /\ sb_pc' # "kill")
            => sb_killed' /\ sb_pc' = "reap"]_vars
    /\ [][(sb_pc = "reap" /\ sb_pc' # "reap")
            => /\ sb_child = "zombie" /\ sb_child' = "reaped"
               /\ sb_pc' = "returned" /\ sb_ret' = 0]_vars
    /\ []((sb_eintr /\ SbReturned)
            => sb_ret = 0 /\ sb_killed /\ sb_child = "reaped")
    /\ (sb_eintr ~> SbReturned)

\* the timeout result was returned after the child was killed and reaped
C26_Witness ==
    /\ SbReturned /\ sb_eintr
    /\ sb_ret = 0
    /\ sb_cst = Signaled(9) /\ sb_child = "reaped"

\* ====================================================== data: properties
IsPrefix(p, q) == Len(p) <= Len(q) /\ \A n \in 1 .. Len(p) : p[n] = q[n]

DataTypeOK ==
    /\ \A c \in Stages : Len(buf[c]) <= Cap
    /\ Len(held) <= 1
    /\ eofseen \subseteq {Transformer, Consumer}
    /\ Len(sink) <= DataLen

\* ---------------------------------------------------------------- C21
\* C21: in producer | transformer | consumer over pipes of capacity Cap with
\* blocking reads and writes, what the consumer has read is at every moment
\* a prefix of the transformer's function applied byte by byte to the
\* producer's output; nothing goes to the terminal and no stage is killed
\* by SIGPIPE; when the consumer's read returns 0 it has read the image of
\* the whole output; and the transformer and the consumer do reach
\* end-of-stream, after which picoshell returns 0.
C21_ConsumerGetsTransformedOutput ==
    /\ [](IsPrefix(sink, MapF(src)))
    /\ [](term = <<>>)
    /\ [](\A k \in Stages : ~WIFSIGNALED(cst[k]))
    /\ [](Consumer \in eofseen => sink = MapF(src))
    /\ <>(eofseen = {Transformer, Consumer} /\ sink = MapF(src))
    /\ <>(Returned /\ ret = 0)

\* an output longer than a pipe's capacity has arrived whole and transformed
C21_Witness ==
    /\ Len(src) > Cap
    /\ Consumer \in eofseen /\ Transformer \in eofseen
    /\ sink = MapF(src)
    /\ sink # src

\* under the data model: no step of the orchestrator moves a byte (holds
\* under SpecData; complements C28)
C28_OrchestratorMovesNoData ==
    [][DataOrchestratorStep => UNCHANGED <<buf, sink, term>>]_vars

\* ---------------------------------------------------------------- C32
\* C32: only the caller returns from ft_popen: the child is at no moment in
\* the code that follows the "if (pid == 0)" block, and no value is
\* returned in the child.
C32_OnlyCallerReturns ==
    /\ ft_cpc \notin {"c_p_close", "c_returned"}
    /\ ft_cret = -1

\* ---------------------------------------------------------------- C34
\* C34: whatever f does and whenever the timer fires, sandbox returns.
C34_SandboxReturns == <>SbReturned

\* the state that C34 excludes: the supervisor sleeps in waitpid for a
\* running child and the timer has already been spent
C34_SleepsWithoutTimer ==
    /\ sb_pc = "blocked" /\ sb_child = "running"
    /\ sb_timer = "fired" /\ ~sb_killed

\* ---------------------------------------------------------------- C35
\* C35: when sandbox has returned, the timer it armed is not pending and
\* SIGALRM has the disposition it had before the call.
C35_NoTimerLeftBehind ==
    SbReturned => (sb_timer # "armed" /\ sb_handler = "default")

\* ---------------------------------------------------------------- C31
\* C31: when sandbox has returned after creating a child, whatever the
\* result, the child is neither running nor a zombie: it has ended and has
\* been reaped by one of sandbox's two waitpid calls, or, where waitpid
\* failed with ECHILD, had already been discarded.
C31_NoChildLeftAtReturn ==
    (SbReturned /\ sb_child # "none") =>
        /\ sb_child \in {"reaped", "gone"}
        /\ sigchld = "default" => sb_child = "reaped"
        /\ sb_ret = -1 => sb_child = "gone"

\* the first waitpid failed with an error other than EINTR and -1 was
\* returned: the child had ended
C31_Witness ==
    /\ SbReturned /\ sb_ret = -1
    /\ sb_child = "gone"
    /\ sb_cst # NoStatus

\* ---------------------------------------------------------------- C39
\* C39: every close() call of the orchestrator names a descriptor that is
\* open in the orchestrator at the call and refers to a channel end, and no
\* channel end is closed by two calls: neither prev_fd after its close nor
\* pipefd of a stage without channel reaches close().
C39_ClosesOnlyOpen ==
    \A n \in 1 .. Len(closelog) :
        /\ closelog[n].fd \in Fds
        /\ IsChan(closelog[n].d)
        /\ \A m \in 1 .. Len(closelog) : closelog[m].d = closelog[n].d => m = n

\* a pipeline of three stages was launched and awaited: both ends of both
\* channels were closed, the last stage having no channel
C39_Witness ==
    /\ Returned /\ N = 3 /\ abort = "none"
    /\ Len(closelog) = 4
    /\ pipefd # <<Uninit, Uninit>>

\* a fork failed at the second stage: the new channel's two ends were closed
C39_WitnessForkFail ==
    /\ Returned /\ abort = "fork" /\ i = 1 /\ N = 3
    /\ Len(closelog) = 3

\* ---------------------------------------------------------------- C38
\* picoshell called in a process in which sandbox has returned before: the
\* SIGALRM handler installed without SA_RESTART is still in place and the
\* timer of "alarm(timeout)" is still running
InitInterrupted ==
    /\ N \in 0 .. MaxStages
    /\ pc = "head"
    /\ i = 0
    /\ prev_fd = NoFd
    /\ pipefd = <<Uninit, Uninit>>
    /\ status = NoStatus
    /\ exit_code = 0
    /\ ret = -1
    /\ pfd = StdTable
    /\ nchan = 0
    /\ cpc = [k \in Stages |-> "none"]
    /\ cst = [k \in Stages |-> NoStatus]
    /\ cfd = [k \in Stages |-> NoTable]
    /\ cprev = [k \in Stages |-> NoFd]
    /\ cpipe = [k \in Stages |-> <<Uninit, Uninit>>]
    /\ abort = "none"
    /\ cause = [k \in Stages |-> "none"]
    /\ closelog = <<>>
    /\ nfork = 0
    /\ PopenIdle
    /\ DataIdle
    /\ verbose = FALSE /\ sigchld = "default"
    /\ sb_pc = "returned" /\ sb_ret = 1
    /\ sb_status = Exited(0) /\ sb_out = "none"
    /\ sb_child = "reaped" /\ sb_cst = Exited(0)
    /\ sb_timer = "armed" /\ sb_handler = "alarm_handler"
    /\ sb_killed = FALSE /\ sb_eintr = FALSE /\ sb_late = FALSE

\* wait() is sleeping: a child exists and none has ended
WaitSleeps ==
    /\ pc = "wait"
    /\ \E k \in Stages : cpc[k] \notin {"none", "reaped"}
    /\ \A k \in Stages : cpc[k] # "zombie"

\* SIGALRM reaches the orchestrator outside wait(): the empty handler runs
\* and the interrupted statement goes on
AlarmHandled ==
    /\ sb_timer = "armed" /\ sb_handler = "alarm_handler"
    /\ pc # "returned"
    /\ sb_timer' = "fired"
    /\ UNCHANGED <<verbose, sb_pc, sb_ret, sb_status, sb_out, sb_child, sb_cst,
                   sb_handler, sb_killed, sb_eintr, sb_late, sigchld>>
    /\ UNCHANGED <<parentVars, childVars, popenVars, dataVars>>

\* SIGALRM reaches the orchestrator sleeping in wait(): the handler runs,
\* wait returns -1 (EINTR), "while (wait(&status) != -1)" ends,
\* "return exit_code;"
WaitEintr ==
    /\ sb_timer = "armed" /\ sb_handler = "alarm_handler"
    /\ WaitSleeps
    /\ sb_timer' = "fired"
    /\ pc' = "returned"
    /\ ret' = exit_code
    /\ UNCHANGED <<N, i, prev_fd, pipefd, status, exit_code, pfd, nchan,
                   abort, closelog, nfork>>
    /\ UNCHANGED <<verbose, sb_pc, sb_ret, sb_status, sb_out, sb_child, sb_cst,
                   sb_handler, sb_killed, sb_eintr, sb_late, sigchld>>
    /\ UNCHANGED <<childVars, popenVars, dataVars>>

NextInterrupted ==
    \/ LoopHead
    \/ PipeSkip
    \/ PipeOk
    \/ PipeFail
    \/ ForkOk
    \/ ForkFail
    \/ ForkFailCloseR
    \/ ForkFailCloseW
    \/ ParentClosePrev
    \/ ParentAdvance
    \/ \E k \in Stages : WaitReap(k)
    \/ WaitDone
    \/ AlarmHandled
    \/ WaitEintr
    \/ \E k \in Stages : ChildDupIn(k)
    \/ \E k \in Stages : ChildDupInFail(k)
    \/ \E k \in Stages : ChildClosePrev(k)
    \/ \E k \in Stages : ChildCloseR(k)
    \/ \E k \in Stages : ChildDupOut(k)
    \/ \E k \in Stages : ChildDupOutFail(k)
    \/ \E k \in Stages : ChildCloseW(k)
    \/ \E k \in Stages : ChildExec(k)
    \/ \E k \in Stages : ChildExecFail(k)
    \/ \E k \in Stages : ChildTerminate(k)

SpecInterrupted == InitInterrupted /\ [][NextInterrupted]_vars

\* C38: after a full launch picoshell has returned only when every stage
\* has been reaped, also when a signal with a handler reaches the
\* orchestrator during the barrier.
C38_BarrierEndsOnNoChildOnly ==
    (Returned /\ abort = "none") => \A k \in 0 .. N - 1 : cpc[k] = "reaped"

\* the barrier was left by an interrupted wait with a stage still running
C38_ReturnedOverRunningStage ==
    /\ Returned /\ abort = "none" /\ sb_timer = "fired"
    /\ \E k \in 0 .. N - 1 : cpc[k] = "running"

\* ---------------------------------------------------------------- C33
\* picoshell called in a process that has a child started by ft_popen
\* (type 'w', the returned descriptor closed since): the child is running
InitForeign ==
    /\ N \in 0 .. MaxStages
    /\ pc = "head"
    /\ i = 0
    /\ prev_fd = NoFd
    /\ pipefd = <<Uninit, Uninit>>
    /\ status = NoStatus
    /\ exit_code = 0
    /\ ret = -1
    /\ pfd = StdTable
    /\ nchan = 1
    /\ cpc = [k \in Stages |-> "none"]
    /\ cst = [k \in Stages |-> NoStatus]
    /\ cfd = [k \in Stages |-> NoTable]
    /\ cprev = [k \in Stages |-> NoFd]
    /\ cpipe = [k \in Stages |-> <<Uninit, Uninit>>]
    /\ abort = "none"
    /\ cause = [k \in Stages |-> "none"]
    /\ closelog = <<>>
    /\ nfork = 0
    /\ file = "prog" /\ argv = "args" /\ type = "w"
    /\ fds = <<3, 4>>
    /\ ft_pc = "closed" /\ ft_ret = 4
    /\ ft_cpc = "running" /\ ft_cst = NoStatus /\ ft_cret = -1
    /\ ft_cfd = [StdTable EXCEPT ![STDIN_FILENO] = Rd(0)]
    /\ SandboxIdle
    /\ DataIdle

\* "wait(&status)" returns the terminated child of ft_popen, and the loop
\* body runs on its status
WaitReapForeign ==
    /\ pc = "wait"
    /\ ft_cpc = "zombie"
    /\ ft_cpc' = "reaped"
    /\ status' = ft_cst
    /\ exit_code' = Aggregate(exit_code, ft_cst)
    /\ UNCHANGED <<N, pc, i, prev_fd, pipefd, ret, pfd, nchan, abort, closelog, nfork>>
    /\ UNCHANGED <<file, argv, type, fds, ft_pc, ft_ret, ft_cfd, ft_cst, ft_cret>>
    /\ UNCHANGED <<childVars, sandboxVars, dataVars>>

NextForeign ==
    \/ LoopHead
    \/ PipeSkip
    \/ PipeOk
    \/ PipeFail
    \/ ForkOk
    \/ ForkFail
    \/ ForkFailCloseR
    \/ ForkFailCloseW
    \/ ParentClosePrev
    \/ ParentAdvance
    \/ \E k \in Stages : WaitReap(k)
    \/ WaitReapForeign
    \/ WaitDone
    \/ PopenChildTerminate
    \/ \E k \in Stages : ChildDupIn(k)
    \/ \E k \in Stages : ChildDupInFail(k)
    \/ \E k \in Stages : ChildClosePrev(k)
    \/ \E k \in Stages : ChildCloseR(k)
    \/ \E k \in Stages : ChildDupOut(k)
    \/ \E k \in Stages : ChildDupOutFail(k)
    \/ \E k \in Stages : ChildCloseW(k)
    \/ \E k \in Stages : ChildExec(k)
    \/ \E k \in Stages : ChildExecFail(k)
    \/ \E k \in Stages : ChildTerminate(k)

SpecForeign == InitForeign /\ [][NextForeign]_vars

\* every stage of the call has been collected
OwnReaped == \A k \in Stages : cpc[k] \in {"none", "reaped"}

\* C33: the child that existed before the call is never reaped by
\* picoshell, the result of a fully launched pipeline is the verdict over
\* the statuses of its own stages, and once its own stages are collected
\* picoshell has returned or can return at once.
C33_ReapsOnlyOwnChildren ==
    /\ ft_cpc # "reaped"
    /\ (Returned /\ abort = "none") => ret = Verdict
    /\ (pc = "wait" /\ OwnReaped) => ft_cpc \notin {"running", "zombie"}

\* the child of ft_popen was reaped by picoshell's wait loop
C33_ForeignReaped ==
    /\ Returned /\ ft_cpc = "reaped" /\ status = ft_cst

\* every stage exited with 0 and picoshell returned 1
C33_ForeignStatusCounted ==
    /\ Returned /\ abort = "none" /\ N > 0
    /\ \A k \in 0 .. N - 1 : cst[k] = Exited(0)
    /\ ret = 1

\* the stages are collected and picoshell sleeps in wait() for as long as
\* the other child runs
C33_WaitsForForeign ==
    /\ pc = "wait" /\ N > 0 /\ OwnReaped
    /\ ft_cpc = "running"
    /\ ~ENABLED WaitDone

\* ---------------------------------------------------------------- C37
\* the descriptor tables of a caller whose standard input, standard output
\* or both are closed
StdClosedTables ==
    {[StdTable EXCEPT ![STDIN_FILENO] = Closed],
     [StdTable EXCEPT ![STDOUT_FILENO] = Closed],
     [StdTable EXCEPT ![STDIN_FILENO] = Closed, ![STDOUT_FILENO] = Closed]}

\* picoshell called with descriptor 0 or 1 closed: pipe() hands out the
\* lowest free numbers, 0 or 1 among them
InitStdClosed ==
    /\ N \in 0 .. MaxStages
    /\ pc = "head"
    /\ i = 0
    /\ prev_fd = NoFd
    /\ pipefd = <<Uninit, Uninit>>
    /\ status = NoStatus
    /\ exit_code = 0
    /\ ret = -1
    /\ pfd \in StdClosedTables
    /\ nchan = 0
    /\ cpc = [k \in Stages |-> "none"]
    /\ cst = [k \in Stages |-> NoStatus]
    /\ cfd = [k \in Stages |-> NoTable]
    /\ cprev = [k \in Stages |-> NoFd]
    /\ cpipe = [k \in Stages |-> <<Uninit, Uninit>>]
    /\ abort = "none"
    /\ cause = [k \in Stages |-> "none"]
    /\ closelog = <<>>
    /\ nfork = 0
    /\ PopenIdle
    /\ SandboxIdle
    /\ DataIdle

SpecStdClosed == InitStdClosed /\ [][Next]_vars

\* ft_popen called with descriptor 0 or 1 closed
InitPopenStdClosed ==
    /\ file \in {"NULL", "prog"}
    /\ argv \in {"NULL", "args"}
    /\ type \in {"r", "w", "x"}
    /\ fds = <<Uninit, Uninit>>
    /\ ft_pc = "check" /\ ft_ret = -1
    /\ ft_cpc = "none" /\ ft_cfd = NoTable /\ ft_cst = NoStatus /\ ft_cret = -1
    /\ pfd \in StdClosedTables
    /\ nchan = 0
    /\ PicoIdle
    /\ SandboxIdle
    /\ DataIdle

SpecPopenStdClosed == InitPopenStdClosed /\ [][NextPopen]_vars

\* C37: whatever numbers pipe() returned, a stage at execvp has the read
\* end of the channel before it as standard input and the write end of the
\* channel after it as standard output.
C37_WiringForAnyDescriptor ==
    \A k \in Stages : AtExec(k) =>
        /\ k > 0 => cfd[k][STDIN_FILENO] = Rd(k - 1)
        /\ HasNext(k) => cfd[k][STDOUT_FILENO] = Wr(k)

\* the read end arrived as descriptor 0: the stage is at execvp with its
\* standard input closed by "close(prev_fd)"
C37_StdinClosedAtExec ==
    \E k \in Stages :
        /\ k > 0 /\ AtExec(k)
        /\ cprev[k] = STDIN_FILENO
        /\ cfd[k][STDIN_FILENO] = Closed

\* the write end arrived as descriptor 1: the stage is at execvp with its
\* standard output closed by "close(pipefd[1])"
C37_StdoutClosedAtExec ==
    \E k \in Stages :
        /\ HasNext(k) /\ AtExec(k)
        /\ cpipe[k][2] = STDOUT_FILENO
        /\ cfd[k][STDOUT_FILENO] = Closed

\* the same for the child of ft_popen at execvp: its standard stream is the
\* end of the channel it was to be bound to
C37_PopenWiringForAnyDescriptor ==
    ft_cpc = "c_exec" =>
        ft_cfd[ChildStream(type)] =
            IF type = "r" THEN Wr(PopenChan) ELSE Rd(PopenChan)

\* the child of ft_popen is at execvp with that standard stream closed
C37_PopenStreamClosedAtExec ==
    /\ ft_cpc = "c_exec"
    /\ ft_cfd[ChildStream(type)] = Closed

\* ---------------------------------------------------------------- C36
\* the launch loop is left with every stage forked, stage c is executing
\* its program and its reader has ended
ReaderGone(c) ==
    /\ AllLaunched /\ pc \in {"wait", "returned"}
    /\ cpc[c] = "running" /\ Terminated(c + 1)

\* the last stage ended before the orchestrator reached "close(prev_fd)":
\* until that statement the orchestrator still holds the read end
C36_LastCloseStillAhead ==
    /\ AllLaunched /\ pc = "p_close_prev"
    /\ cpc[Transformer] = "running" /\ Terminated(Consumer)
    /\ HasReader(1)

\* C36: in a fully launched pipeline, once stage c + 1 has ended no process
\* holds the read end of channel c, so a write of the running stage c to it
\* is not blocked but ends the stage by SIGPIPE; and the pipeline does not
\* deadlock on a dead reader: picoshell returns.
C36_DeadReaderBreaksPipe ==
    /\ [](\A c \in Channels : ReaderGone(c) =>
              /\ ~HasReader(c)
              /\ Broken(c)
              /\ ~CanWrite(c))
    /\ <>Returned

\* the consumer and the transformer exited early and the producer, still
\* writing, was ended by SIGPIPE; picoshell has returned
C36_Witness ==
    /\ Returned
    /\ cst[Producer] = Signaled(13) /\ cause[Producer] = "prog"
    /\ out_left # <<>>
    /\ Consumer \notin eofseen /\ Transformer \notin eofseen
====
